---- MODULE Spec2Model ----
(***************************************************************************)
(* Recovery service of twinquest-runner: the connection manager            *)
(* (DatabaseService), the checkpoint resolver, the batch processor and the *)
(* recovery orchestrator (RecoveryService).                                *)
(*                                                                         *)
(* The specifications share the variables:                                 *)
(*   Spec       one orchestrator running passes of                         *)
(*              checkAndRecoverIncompleteSimulations over the store, the   *)
(*              units of a batch as concurrent tasks;                      *)
(*   SpecRetry  one call of DatabaseService.executeWithRetry, statement by *)
(*              statement, with reconnect();                               *)
(*   SpecConn   reconnect() called by concurrent users of the one          *)
(*              DatabaseService, with the connection monitor of main.ts;   *)
(*   SpecOps    the operations CronService schedules, one after the other, *)
(*              in every connection state, with the monitor's health check;*)
(*   SpecQueue  processQueueJobs running concurrently with those           *)
(*              operations, and the passing of time;                       *)
(*   SpecRetryFair  SpecRetry in which every awaited promise settles;      *)
(*   SpecOverlap    two invocations of the recovery and stuck-recovery     *)
(*              tasks in flight at once;                                   *)
(*   SpecLive   the recovery task fired again and again, storage healthy.  *)
(* delay() is a step without effect, and timestamps are ages in minutes,   *)
(* which only the time step of SpecQueue changes.                          *)
(***************************************************************************)
EXTENDS Integers, Sequences, FiniteSets, TLC

VARIABLES
    isConnected,        \* DatabaseService.isConnected
    reconnectAttempts,  \* DatabaseService.reconnectAttempts
    ewr,                \* the frame of one executeWithRetry call (SpecRetry)
    simulations,        \* table simulations: simulationId -> row
    survey_responses,   \* table survey_responses: simulationId -> personaId -> number of rows
    questionTable,      \* table Question: surveyId -> number of questions
    personasTable,      \* table personas: the ids that have a row
    queue_jobs,         \* table simulation_queue_jobs: id -> row
    pass,               \* frame of checkAndRecoverIncompleteSimulations
    loc,                \* frame of resumeIncompleteSimulation / processRemainingPersonas
    tasks,              \* the unit closures of Promise.all that have not settled
    batchErr,           \* first rejection of the current Promise.all ("none" when pending)
    hist,               \* per pass and work item: what the pass did (observation only)
    failures,           \* number of storage failures injected so far
    reconn,             \* DatabaseService.prisma and the calls of reconnect() in flight (SpecConn)
    pq,                 \* frame of processQueueJobs (SpecQueue)
    elapsed,            \* number of time steps taken so far (SpecQueue)
    parked              \* frame of the other invocation of a cron task in flight (SpecOverlap)

vars == << isConnected, reconnectAttempts, ewr, simulations, survey_responses,
           questionTable, personasTable, queue_jobs, pass, loc, tasks, batchErr,
           hist, failures, reconn, pq, elapsed, parked >>

storeVars == << simulations, survey_responses, questionTable, personasTable, queue_jobs >>
passVars == << pass, loc, tasks, batchErr, hist, failures >>

-----------------------------------------------------------------------------
(* Bounds of the model *)

MaxAttempts == 3        \* executeWithRetry is called with maxRetries in 1..MaxAttempts
MaxFailures == 2        \* storage failures injected in one behaviour of Spec
MaxPasses == 2          \* passes of checkAndRecoverIncompleteSimulations in one behaviour
MaxQuestions == 1       \* a survey has 0..MaxQuestions questions
MaxQueueCalls == 1      \* calls of processQueueJobs in one behaviour of SpecQueue
MaxElapses == 1         \* time steps in one behaviour of SpecQueue
MaxSwitches == 2        \* changes of the running invocation in one behaviour of SpecOverlap

(* Program constants *)

maxReconnectAttempts == 10      \* database.service.ts:9
batchSize == 2                  \* parseInt(process.env.BATCH_SIZE || '10'), run with BATCH_SIZE=2
maxRetries == 2                 \* parseInt(process.env.MAX_RETRIES || '3'), run with MAX_RETRIES=2
staleMinutes == 5               \* checkAndRecoverIncompleteSimulations, createdAt threshold
stuckJobMinutes == 30           \* recoverStuckQueueJobs, started_at threshold
failedWindowMinutes == 1440     \* checkAndRecoverFailedSimulations, createdAt within 24 hours
stuckMinutes == 10              \* checkAndRecoverStuckSimulations, updatedAt threshold
cleanupMinutes == 10080         \* cleanupOldJobs, 7 days

Min(a, b) == IF a < b THEN a ELSE b

-----------------------------------------------------------------------------
(* Errors.  An error is identified by its message (or driver code).        *)

ErrConnLost == "Database connection lost and reconnection failed"
ErrReconnect == "Failed to reconnect to database"
ErrNotConnected == "Database not connected"
TransientErrors == {"db_error_a", "db_error_b"}
DriverConnErrors == {"P1001"}

\* DatabaseService.isConnectionError: the message contains "connection",
\* "timeout", "network", "econnreset", "enotfound" or "closed", or the code
\* is one of the Prisma connection codes.  Of the messages above only
\* ErrConnLost contains one of the words ("reconnect" and "connected" do
\* not contain "connection").
isConnectionError(error) ==
    \/ error = ErrConnLost
    \/ error \in DriverConnErrors

-----------------------------------------------------------------------------
(* DatabaseService.reconnect, one connection attempt per step.             *)
(* ReconnectStep(conn, rc, ok) is the state after one run of the body of   *)
(* reconnect() whose $connect succeeds (ok) or throws; done tells whether  *)
(* reconnect() returns, and result what it returns.                        *)

ReconnectStep(conn, rc, ok) ==
    IF rc >= maxReconnectAttempts
    THEN [conn |-> conn, rc |-> rc, done |-> TRUE, result |-> FALSE]
    ELSE IF ok
         THEN [conn |-> TRUE, rc |-> 0, done |-> TRUE, result |-> TRUE]
         ELSE IF rc + 1 < maxReconnectAttempts
              THEN [conn |-> FALSE, rc |-> rc + 1, done |-> FALSE, result |-> FALSE]
              ELSE [conn |-> FALSE, rc |-> rc + 1, done |-> TRUE, result |-> FALSE]

\* executeWithRetry's backoff: await this.delay(delayMs * attempt)
BackoffDelayMut(delayMs, attempt) == delayMs
BackoffDelay(delayMs, attempt) == delayMs * attempt

-----------------------------------------------------------------------------
(* One call of executeWithRetry(operation, maxRetries, delayMs).           *)

EwrIdle ==
    [pc |-> "idle", attempt |-> 0, maxRetries |-> 0, delayMs |-> 0,
     lastError |-> "none", calls |-> 0, waits |-> << >>, result |-> "none",
     opErrors |-> << >>, connEvents |-> 0, conn0 |-> TRUE, rc0 |-> 0]

DelayValues == {1000, 2000}

\* the users of the one DatabaseService: two executeWithRetry callers (concurrent units
\* of a batch, overlapping cron passes) and the connection monitor of main.ts
Callers == {"u1", "u2", "mon"}

\* a user's latest call of reconnect(): tried tells whether the call has started a
\* $connect, ret what it returned
CallIdle == [pc |-> "idle", tried |-> FALSE, ret |-> "none"]

\* owner: the user whose reconnect() created the PrismaClient now in this.prisma
ReconnIdle == [owner |-> "init", fr |-> [c \in Callers |-> CallIdle]]

\* no call of processQueueJobs in flight
PqIdle == [pc |-> "idle", job |-> "none", calls |-> 0]

InitRetry ==
    /\ isConnected \in BOOLEAN
    /\ reconnectAttempts \in {0, maxReconnectAttempts - 1}
    /\ \E m \in 1..MaxAttempts, d \in DelayValues :
         ewr = [EwrIdle EXCEPT !.pc = "loop", !.attempt = 1, !.maxRetries = m, !.delayMs = d,
                               !.conn0 = isConnected, !.rc0 = reconnectAttempts]

\* for (let attempt = 1; attempt <= maxRetries; attempt++) { try { if (!this.isConnected) ...
EwrLoop ==
    /\ UNCHANGED << storeVars, passVars, reconn, pq, elapsed, parked >>
    /\ ewr.pc = "loop"
    /\ IF ewr.attempt > ewr.maxRetries
       THEN ewr' = [ewr EXCEPT !.pc = "raised", !.result = ewr.lastError]
       ELSE IF ~isConnected
            THEN ewr' = [ewr EXCEPT !.pc = "reconnectPre", !.connEvents = @ + 1]
            ELSE ewr' = [ewr EXCEPT !.pc = "op"]
    /\ UNCHANGED << isConnected, reconnectAttempts >>

\* const reconnected = await this.reconnect(); if (!reconnected) throw new Error('Failed to reconnect to database')
EwrReconnectPre ==
    /\ UNCHANGED << storeVars, passVars, reconn, pq, elapsed, parked >>
    /\ ewr.pc = "reconnectPre"
    /\ \E ok \in BOOLEAN :
         LET r == ReconnectStep(isConnected, reconnectAttempts, ok) IN
         /\ isConnected' = r.conn
         /\ reconnectAttempts' = r.rc
         /\ ewr' = IF ~r.done THEN ewr
                   ELSE IF r.result THEN [ewr EXCEPT !.pc = "op"]
                   ELSE [ewr EXCEPT !.pc = "catch", !.lastError = ErrReconnect]

\* return await operation();
EwrOp ==
    /\ UNCHANGED << storeVars, passVars, reconn, pq, elapsed, parked >>
    /\ ewr.pc = "op"
    /\ \/ ewr' = [ewr EXCEPT !.pc = "returned", !.result = "value", !.calls = @ + 1]
       \/ \E e \in TransientErrors \cup DriverConnErrors :
            ewr' = [ewr EXCEPT !.pc = "catch", !.lastError = e, !.calls = @ + 1,
                               !.opErrors = Append(@, e)]
    /\ UNCHANGED << isConnected, reconnectAttempts >>

\* catch (error) { lastError = error; if (this.isConnectionError(error)) ... if (attempt === maxRetries) throw ... delay }
EwrCatch ==
    /\ UNCHANGED << storeVars, passVars, reconn, pq, elapsed, parked >>
    /\ ewr.pc = "catch"
    /\ IF isConnectionError(ewr.lastError)
       THEN /\ isConnected' = FALSE
            /\ ewr' = [ewr EXCEPT !.pc = "reconnectCatch", !.connEvents = @ + 1]
       ELSE /\ UNCHANGED isConnected
            /\ IF ewr.attempt = ewr.maxRetries
               THEN ewr' = [ewr EXCEPT !.pc = "raised", !.result = ewr.lastError]
               ELSE ewr' = [ewr EXCEPT !.pc = "loop", !.attempt = @ + 1,
                               !.waits = Append(@, BackoffDelay(ewr.delayMs, ewr.attempt))]
    /\ UNCHANGED reconnectAttempts

\* a continue that skips attempt++ after a successful reconnect
EwrReconnectCatchMut ==
    /\ UNCHANGED << storeVars, passVars, reconn, pq, elapsed, parked >>
    /\ ewr.pc = "reconnectCatch"
    /\ \E ok \in BOOLEAN :
         LET r == ReconnectStep(isConnected, reconnectAttempts, ok) IN
         /\ isConnected' = r.conn
         /\ reconnectAttempts' = r.rc
         /\ ewr' = IF ~r.done THEN ewr
                   ELSE IF r.result THEN [ewr EXCEPT !.pc = "loop"]
                   ELSE [ewr EXCEPT !.pc = "raised", !.result = ErrConnLost]

\* const reconnected = await this.reconnect(); if (!reconnected) throw new Error(ErrConnLost); continue;
EwrReconnectCatch ==
    /\ UNCHANGED << storeVars, passVars, reconn, pq, elapsed, parked >>
    /\ ewr.pc = "reconnectCatch"
    /\ \E ok \in BOOLEAN :
         LET r == ReconnectStep(isConnected, reconnectAttempts, ok) IN
         /\ isConnected' = r.conn
         /\ reconnectAttempts' = r.rc
         /\ ewr' = IF ~r.done THEN ewr
                   ELSE IF r.result THEN [ewr EXCEPT !.pc = "loop", !.attempt = @ + 1]
                   ELSE [ewr EXCEPT !.pc = "raised", !.result = ErrConnLost]

-----------------------------------------------------------------------------
(* executeWithRetry around ONE storage statement, as the callers of the     *)
(* orchestrator see it: the set of ways the call can end from a session    *)
(* state (conn, rc).  err = "ok" means the statement ran once and its      *)
(* value was returned; any other err is the error raised, and the          *)
(* statement had no effect.  conn and rc are isConnected and               *)
(* reconnectAttempts when the call ends.                                   *)

ExecResults(conn, rc) ==
    LET exhausted == rc >= maxReconnectAttempts
        whenConnected(r) ==
            {[err |-> "ok", conn |-> TRUE, rc |-> r]}
            \cup {[err |-> e, conn |-> TRUE, rc |-> r] : e \in TransientErrors}
            \cup {[err |-> ErrConnLost, conn |-> FALSE, rc |-> maxReconnectAttempts]}
            \cup (IF r >= maxReconnectAttempts THEN {}
                  ELSE {[err |-> x, conn |-> TRUE, rc |-> 0] :
                          x \in {"ok"} \cup TransientErrors \cup DriverConnErrors})
    IN  IF conn THEN whenConnected(rc)
        ELSE IF exhausted THEN {[err |-> ErrReconnect, conn |-> FALSE, rc |-> rc]}
        ELSE whenConnected(0)
             \cup {[err |-> ErrReconnect, conn |-> FALSE, rc |-> maxReconnectAttempts]}

\* DatabaseService.getClient: throws 'Database not connected' unless isConnected
getClientThrows(conn) == ~conn

-----------------------------------------------------------------------------
(* The store.                                                              *)

Sims == {"s1", "s2"}            \* simulationId of the two work items
Units == 1..3                   \* persona ids
Surveys == {"A"}
Jobs == {"j1", "j2"}

NoRows == [u \in Units |-> 0]

\* the ids of a set in ascending order (the order in which a table scan returns rows)
RECURSIVE Sorted(_)
Sorted(S) ==
    IF S = {} THEN << >>
    ELSE LET m == CHOOSE x \in S : \A y \in S : x <= y
         IN  << m >> \o Sorted(S \ {m})

SimRow(selected, status, age) ==
    [status |-> status, recovery_status |-> "null", progress_percentage |-> 0,
     error_message |-> "null", successful_requests |-> 0, resumed_at |-> "null",
     createdAge |-> age, surveyId |-> "A", selected_persona_ids |-> selected,
     total_requests |-> 1, selected_persona_count |-> Len(selected),
     updatedAge |-> age, queue_job_id |-> "null"]

JobRow(status, startedAge) ==
    [status |-> status, startedAge |-> startedAge, retry_count |-> 0, max_retries |-> 3,
     error_message |-> "null", failedAge |-> -1, completedAge |-> -1]

\* initial stores: << done units of s1, done units of s2, status of s2, age of s2 >>
Scenarios ==
    { << {}, {1, 3}, "RUNNING", 6 >>,
      << {1, 3}, {3}, "RUNNING", 6 >>,
      << {1, 2, 3}, {}, "RUNNING", 6 >>,
      << {1, 3}, {}, "RUNNING", 4 >>,
      << {1, 3}, {}, "PENDING", 6 >> }

\* scenarios that are also started with a survey without questions, or with
\* persona 2 deleted from the personas table
EdgeScenarios == { << {1, 3}, {3}, "RUNNING", 6 >> }

PassIdle ==
    [op |-> "incomplete", pc |-> "idle", no |-> 0, candidates |-> << >>, idx |-> 0, recovered |-> 0,
     failed |-> 0, issues |-> << >>,
     result |-> [recovered |-> 0, failed |-> 0, total |-> 0, status |-> "none", issues |-> << >>]]

LocIdle ==
    [sim |-> "none", questions |-> 0, remaining |-> << >>, personas |-> << >>,
     batches |-> << >>, bi |-> 0, attempt |-> 0, lastError |-> "none", caught |-> "none",
     stuckJobs |-> {}]

HistIdle ==
    [s \in Sims |->
        [attempts |-> 0, resolved |-> FALSE, rows0 |-> NoRows, remaining0 |-> << >>,
         sawInProgress |-> FALSE, plan |-> << >>, dispatched |-> << >>,
         gen |-> NoRows, saved |-> NoRows, failedAt |-> 0,
         outcome |-> "none", cause |-> "none", marked |-> "none"]]

\* the frame of an invocation that is not the one running: what pass, loc, tasks,
\* batchErr and hist hold for it; switches counts the changes of the running invocation
Frame(p, l, t, b, h, n) ==
    [pass |-> p, loc |-> l, tasks |-> t, batchErr |-> b, hist |-> h, switches |-> n]

ParkedIdle == Frame(PassIdle, LocIdle, {}, "none", HistIdle, 0)

InitPassFrame ==
    /\ pass = PassIdle
    /\ loc = LocIdle
    /\ tasks = {}
    /\ batchErr = "none"
    /\ hist = HistIdle
    /\ failures = 0

InitStore ==
    /\ \E sc \in Scenarios :
         /\ simulations = [s \in Sims |->
                IF s = "s1" THEN SimRow(<< 1, 2, 3 >>, "RUNNING", 6)
                ELSE SimRow(<< 3, 1 >>, sc[3], sc[4])]
         /\ survey_responses = [s \in Sims |-> [u \in Units |->
                IF u \in (IF s = "s1" THEN sc[1] ELSE sc[2]) THEN 1 ELSE 0]]
         /\ \/ /\ questionTable \in [Surveys -> 1..MaxQuestions]
               /\ personasTable = Units
            \/ /\ sc \in EdgeScenarios
               /\ questionTable = [q \in Surveys |-> 0]
               /\ personasTable = Units
            \/ /\ sc \in EdgeScenarios
               /\ questionTable = [q \in Surveys |-> 1]
               /\ personasTable = Units \ {2}
    /\ queue_jobs = [j \in Jobs |->
            IF j = "j1" THEN JobRow("PROCESSING", 31) ELSE JobRow("PROCESSING", 29)]

Init ==
    /\ isConnected = TRUE
    /\ reconnectAttempts = 0
    /\ ewr = EwrIdle
    /\ reconn = ReconnIdle
    /\ pq = PqIdle
    /\ elapsed = 0
    /\ parked = ParkedIdle
    /\ InitStore
    /\ InitPassFrame

\* the store of SpecRetry is not read by executeWithRetry: one fixed store
InitRetryStore ==
    /\ simulations = [s \in Sims |-> SimRow(<< 1, 2, 3 >>, "RUNNING", 6)]
    /\ survey_responses = [s \in Sims |-> NoRows]
    /\ questionTable = [q \in Surveys |-> 1]
    /\ personasTable = Units
    /\ queue_jobs = [j \in Jobs |-> JobRow("PROCESSING", 31)]

RetryInit ==
    /\ InitRetry
    /\ reconn = ReconnIdle
    /\ pq = PqIdle
    /\ elapsed = 0
    /\ parked = ParkedIdle
    /\ InitRetryStore
    /\ InitPassFrame

RetryNext ==
    \/ EwrLoop
    \/ EwrReconnectPre
    \/ EwrOp
    \/ EwrCatch
    \/ EwrReconnectCatch

SpecRetry == RetryInit /\ [][RetryNext]_vars

\* every promise the call awaits (operation(), $disconnect, $connect, delay) settles,
\* and the event loop then runs the continuation of the call
SpecRetryFair == SpecRetry /\ WF_vars(RetryNext)

-----------------------------------------------------------------------------
(* Queries and pure helpers of RecoveryService                             *)

SimOrder == << "s1", "s2" >>    \* the order in which simulations.findMany returns rows

\* where: { status: 'RUNNING', createdAt: { lt: now - 5 min } }
SelectIncomplete ==
    SelectSeq(SimOrder, LAMBDA s :
        simulations[s].status = "RUNNING" /\ simulations[s].createdAge > staleMinutes)

\* survey_responses.findMany({ where: { simulationId }, distinct: ['personaId'] })
getCompletedPersonaIdsMut(simulationId) ==
    {u \in Units : survey_responses[simulationId][u] > 1}
getCompletedPersonaIds(simulationId) ==
    {u \in Units : survey_responses[simulationId][u] > 0}

\* allSelectedPersonaIds.filter(id => !completedPersonaIds.includes(id))
RemainingIdsMut(allSelectedPersonaIds, completedPersonaIds) == allSelectedPersonaIds
RemainingIds(allSelectedPersonaIds, completedPersonaIds) ==
    SelectSeq(allSelectedPersonaIds, LAMBDA id : id \notin completedPersonaIds)

\* if (remainingPersonaIds.length === 0)
NoRemainingMut(remainingPersonaIds) == FALSE
NoRemaining(remainingPersonaIds) == Len(remainingPersonaIds) = 0

\* personas.findMany({ where: { id: { in: remainingPersonaIds } } })
FindPersonas(remainingPersonaIds) ==
    Sorted({id \in personasTable : \E i \in 1..Len(remainingPersonaIds) : remainingPersonaIds[i] = id})

\* chunkArray: for (i = 0; i < array.length; i += size) chunks.push(array.slice(i, i + size))
RECURSIVE chunkFrom(_, _, _)
chunkFrom(array, size, i) ==
    IF i >= Len(array) THEN << >>
    ELSE << SubSeq(array, i + 1, Min(i + size, Len(array))) >> \o chunkFrom(array, size, i + size)

chunkArray(array, size) == chunkFrom(array, size, 0)

\* generatePersonaResponses: one response per question
generatePersonaResponses(questions) == questions

RECURSIVE SumRows(_, _)
SumRows(rows, S) ==
    IF S = {} THEN 0
    ELSE LET u == CHOOSE x \in S : TRUE IN rows[u] + SumRows(rows, S \ {u})

\* survey_responses.count({ where: { simulationId } })
CountResponses(simulationId) == SumRows(survey_responses[simulationId], Units)

\* Math.min((totalResponses / (total_requests * selected_persona_count)) * 100, 100),
\* in whole percent; a zero divisor gives Infinity (min 100) or NaN (0/0)
Progress(totalResponses, row) ==
    LET d == row.total_requests * row.selected_persona_count IN
    IF d = 0 THEN (IF totalResponses = 0 THEN "NaN" ELSE 100)
    ELSE Min((totalResponses * 100) \div d, 100)

\* lines 407-413: HEALTHY / WARNING / UNHEALTHY
OverallStatusMut(recovered, failed) ==
    IF failed > 0 THEN (IF failed >= recovered THEN "UNHEALTHY" ELSE "WARNING") ELSE "HEALTHY"
OverallStatus(recovered, failed) ==
    IF failed > 0 THEN (IF failed > recovered THEN "UNHEALTHY" ELSE "WARNING") ELSE "HEALTHY"

\* the outer catch of checkAndRecoverIncompleteSimulations
FatalResultMut(error) ==
    [recovered |-> 0, failed |-> 0, total |-> 0, status |-> "raised", issues |-> << error >>]
FatalResult(error) ==
    [recovered |-> 0, failed |-> 1, total |-> 1, status |-> "UNHEALTHY", issues |-> << error >>]

\* where: { status: 'PROCESSING', started_at: { lt: now - 30 min } }
StuckJobs ==
    {j \in Jobs : queue_jobs[j].status = "PROCESSING" /\ queue_jobs[j].startedAge > stuckJobMinutes}

\* data written by the three status updates of resumeIncompleteSimulation
CompletedData(row) ==
    [row EXCEPT !.status = "COMPLETED", !.progress_percentage = 100,
                !.updatedAge = 0, !.recovery_status = "COMPLETED"]
InProgressData(row) == [row EXCEPT !.recovery_status = "IN_PROGRESS", !.resumed_at = "set"]
RecoveredData(row) == [row EXCEPT !.recovery_status = "COMPLETED", !.resumed_at = "set"]
FailedDataMut(row, error) == [row EXCEPT !.recovery_status = "FAILED", !.error_message = error]
FailedData(row, error) ==
    [row EXCEPT !.status = "FAILED", !.recovery_status = "FAILED", !.error_message = error]

-----------------------------------------------------------------------------
(* Storage calls of the orchestrator.  Every call goes through             *)
(* executeWithRetry; StorageCall(r) is a call that ends as r.              *)

\* a failure that the session state forces (not connected, reconnects exhausted)
Forced == ~isConnected /\ reconnectAttempts >= maxReconnectAttempts

CallResults ==
    {r \in ExecResults(isConnected, reconnectAttempts) : r.err # "db_error_b"}

StorageCall(r) ==
    /\ r \in CallResults
    /\ (r.err # "ok" /\ ~Forced) => failures < MaxFailures
    /\ isConnected' = r.conn
    /\ reconnectAttempts' = r.rc
    /\ failures' = IF r.err # "ok" /\ ~Forced THEN failures + 1 ELSE failures

\* reconnect() as a whole: the ways it can end from (conn, rc)
ReconnectResults(conn, rc) ==
    IF rc >= maxReconnectAttempts
    THEN {[result |-> FALSE, conn |-> conn, rc |-> rc]}
    ELSE {[result |-> TRUE, conn |-> TRUE, rc |-> 0],
          [result |-> FALSE, conn |-> FALSE, rc |-> maxReconnectAttempts]}

-----------------------------------------------------------------------------
(* checkAndRecoverIncompleteSimulations and resumeIncompleteSimulation     *)

Range(seq) == {seq[i] : i \in 1..Len(seq)}

CurSim == loc.sim

\* try { await this.resumeIncompleteSimulation(simulation); recovered++; await this.delay(2000) }
TallyRecovered(p) == [p EXCEPT !.recovered = @ + 1, !.idx = @ + 1, !.pc = "loop"]

\* catch (error) { failed++; issues.push(...); await this.delay(1000) }
TallyFailedMut(p, error) ==
    [p EXCEPT !.failed = @ + 1, !.issues = Append(@, error),
              !.idx = Len(p.candidates) + 1, !.pc = "loop"]
TallyFailed(p, error) ==
    [p EXCEPT !.failed = @ + 1, !.issues = Append(@, error), !.idx = @ + 1, !.pc = "loop"]

\* an error thrown inside the try block of resumeIncompleteSimulation: the catch
\* block starts the update that records the failure
Caught(l, error) == [l EXCEPT !.caught = error]

\* await this.delay(5000); ... const prisma = this.database.getClient();
StartPass ==
    /\ pass.pc \in {"idle", "done"}
    /\ pass.no < MaxPasses
    /\ pass' = IF getClientThrows(isConnected)
               THEN [PassIdle EXCEPT !.no = pass.no + 1, !.pc = "done",
                                     !.result = FatalResult(ErrNotConnected)]
               ELSE [PassIdle EXCEPT !.no = pass.no + 1, !.pc = "scan"]
    /\ loc' = LocIdle
    /\ hist' = HistIdle
    /\ UNCHANGED << isConnected, reconnectAttempts, ewr, reconn, pq, elapsed, parked, storeVars, tasks, batchErr, failures >>

\* incompleteSimulations = await executeWithRetry(findMany ...); the first iteration of
\* the loop enters resumeIncompleteSimulation and starts the question query; with no
\* candidate recoverStuckQueueJobs starts its query
Scan ==
    /\ pass.pc = "scan"
    /\ \E r \in CallResults :
         /\ StorageCall(r)
         /\ IF r.err # "ok"
            THEN /\ pass' = [pass EXCEPT !.pc = "done", !.result = FatalResult(r.err)]
                 /\ UNCHANGED << loc, hist >>
            ELSE LET c == SelectIncomplete IN
                 IF c = << >>
                 THEN /\ pass' = [pass EXCEPT !.candidates = c, !.idx = 1, !.pc = "reaper"]
                      /\ UNCHANGED << loc, hist >>
                 ELSE /\ pass' = [pass EXCEPT !.candidates = c, !.idx = 1, !.pc = "questions"]
                      /\ loc' = [LocIdle EXCEPT !.sim = c[1]]
                      /\ hist' = [hist EXCEPT ![c[1]].attempts = @ + 1]
    /\ UNCHANGED << ewr, reconn, pq, elapsed, parked, storeVars, tasks, batchErr >>

\* next iteration of the loop, after the delay: resumeIncompleteSimulation calls
\* getClient() before its try block
ResumeNext ==
    /\ pass.pc = "loop"
    /\ pass.idx <= Len(pass.candidates)
    /\ LET s == pass.candidates[pass.idx] IN
       IF getClientThrows(isConnected)
       THEN /\ pass' = TallyFailed(pass, ErrNotConnected)
            /\ hist' = [hist EXCEPT ![s].attempts = @ + 1, ![s].outcome = "failed",
                                    ![s].cause = ErrNotConnected]
            /\ loc' = LocIdle
       ELSE /\ pass' = [pass EXCEPT !.pc = "questions"]
            /\ hist' = [hist EXCEPT ![s].attempts = @ + 1]
            /\ loc' = [LocIdle EXCEPT !.sim = s]
    /\ UNCHANGED << isConnected, reconnectAttempts, ewr, reconn, pq, elapsed, parked, storeVars, tasks, batchErr, failures >>

\* the loop is over: await this.recoverStuckQueueJobs(), whose getClient() is outside
\* its try block
LoopEnd ==
    /\ pass.pc = "loop"
    /\ pass.idx > Len(pass.candidates)
    /\ pass' = IF getClientThrows(isConnected)
               THEN [pass EXCEPT !.pc = "done", !.result = FatalResult(ErrNotConnected)]
               ELSE [pass EXCEPT !.pc = "reaper"]
    /\ loc' = LocIdle
    /\ UNCHANGED << isConnected, reconnectAttempts, ewr, reconn, pq, elapsed, parked, storeVars, tasks, batchErr, hist, failures >>

\* questions = await executeWithRetry(question.findMany ...); then getCompletedPersonaIds starts
FetchQuestions ==
    /\ pass.pc = "questions"
    /\ \E r \in CallResults :
         /\ StorageCall(r)
         /\ IF r.err = "ok"
            THEN /\ loc' = [loc EXCEPT !.questions = questionTable[simulations[CurSim].surveyId]]
                 /\ pass' = [pass EXCEPT !.pc = "resolve"]
            ELSE /\ loc' = Caught(loc, r.err)
                 /\ pass' = [pass EXCEPT !.pc = "markFailed"]
    /\ UNCHANGED << ewr, reconn, pq, elapsed, parked, storeVars, tasks, batchErr, hist >>

\* completedPersonaIds = await getCompletedPersonaIds(); remainingPersonaIds = filter(...);
\* if (remainingPersonaIds.length === 0) start the COMPLETED update, else the personas query
ResolveCheckpoint ==
    /\ pass.pc = "resolve"
    /\ \E r \in CallResults :
         /\ StorageCall(r)
         /\ IF r.err = "ok"
            THEN LET rem == RemainingIds(simulations[CurSim].selected_persona_ids,
                                         getCompletedPersonaIds(CurSim)) IN
                 /\ loc' = [loc EXCEPT !.remaining = rem]
                 /\ pass' = [pass EXCEPT !.pc = IF NoRemaining(rem) THEN "markEmpty" ELSE "personas"]
                 /\ hist' = [hist EXCEPT ![CurSim].resolved = TRUE,
                                         ![CurSim].rows0 = survey_responses[CurSim],
                                         ![CurSim].remaining0 = rem]
            ELSE /\ loc' = Caught(loc, r.err)
                 /\ pass' = [pass EXCEPT !.pc = "markFailed"]
                 /\ UNCHANGED hist
    /\ UNCHANGED << ewr, reconn, pq, elapsed, parked, storeVars, tasks, batchErr >>

\* simulations.update({ status: 'COMPLETED', progress_percentage: 100, recovery_status: 'COMPLETED' }); return
MarkEmpty ==
    /\ pass.pc = "markEmpty"
    /\ \E r \in CallResults :
         /\ StorageCall(r)
         /\ IF r.err = "ok"
            THEN /\ simulations' = [simulations EXCEPT ![CurSim] = CompletedData(@)]
                 /\ pass' = TallyRecovered(pass)
                 /\ hist' = [hist EXCEPT ![CurSim].outcome = "recovered"]
                 /\ UNCHANGED loc
            ELSE /\ loc' = Caught(loc, r.err)
                 /\ pass' = [pass EXCEPT !.pc = "markFailed"]
                 /\ UNCHANGED << simulations, hist >>
    /\ UNCHANGED << ewr, reconn, pq, elapsed, parked, survey_responses, questionTable, personasTable, queue_jobs, tasks, batchErr >>

\* remainingPersonasData = await executeWithRetry(personas.findMany ...)
FetchPersonas ==
    /\ pass.pc = "personas"
    /\ \E r \in CallResults :
         /\ StorageCall(r)
         /\ IF r.err = "ok"
            THEN /\ loc' = [loc EXCEPT !.personas = FindPersonas(loc.remaining)]
                 /\ pass' = [pass EXCEPT !.pc = "inProgress"]
            ELSE /\ loc' = Caught(loc, r.err)
                 /\ pass' = [pass EXCEPT !.pc = "markFailed"]
    /\ UNCHANGED << ewr, reconn, pq, elapsed, parked, storeVars, tasks, batchErr, hist >>

-----------------------------------------------------------------------------
(* processRemainingPersonas: batches, the units of a batch as tasks        *)

\* batch.map(async (persona) => { responses = await generatePersonaResponses(...);
\* await savePersonaResponses(...) ...: every closure of the batch is started, and
\* its createMany is in flight
NewTasks(s, bi, att, batch, questions) ==
    {[sim |-> s, u |-> batch[i], bi |-> bi, att |-> att, no |-> pass.no, live |-> TRUE,
      pc |-> "save", responses |-> generatePersonaResponses(questions), total |-> 0] :
        i \in 1..Len(batch)}

HistDispatch(h, s, bi, att, batch) ==
    [h EXCEPT ![s].gen = [u \in Units |-> IF u \in Range(batch) THEN @[u] + 1 ELSE @[u]],
              ![s].dispatched = Append(@, << bi, att >>)]

\* Promise.all has rejected: the closures still running are no longer awaited
Abandon(ts) == {[t EXCEPT !.live = FALSE] : t \in ts}

\* the error of executeWithRetry(batch) is not caught in processRemainingPersonas:
\* it reaches the catch block of resumeIncompleteSimulation
BatchFailurePcMut(error) == "batchNext"
BatchFailurePc(error) == "markFailed"

\* simulations.update({ recovery_status: 'IN_PROGRESS', resumed_at }); then
\* processRemainingPersonas chunks the personas and starts attempt 1 of batch 1
MarkInProgress ==
    /\ pass.pc = "inProgress"
    /\ \E r \in CallResults :
         /\ StorageCall(r)
         /\ IF r.err = "ok"
            THEN LET b == chunkArray(loc.personas, batchSize) IN
                 /\ simulations' = [simulations EXCEPT ![CurSim] = InProgressData(@)]
                 /\ IF b = << >>
                    THEN /\ loc' = [loc EXCEPT !.batches = b, !.bi = 0]
                         /\ pass' = [pass EXCEPT !.pc = "markRecovered"]
                         /\ hist' = [hist EXCEPT ![CurSim].sawInProgress = TRUE, ![CurSim].plan = b]
                         /\ UNCHANGED tasks
                    ELSE /\ loc' = [loc EXCEPT !.batches = b, !.bi = 1, !.attempt = 1]
                         /\ pass' = [pass EXCEPT !.pc = "batchWait"]
                         /\ hist' = HistDispatch(
                                [hist EXCEPT ![CurSim].sawInProgress = TRUE, ![CurSim].plan = b],
                                CurSim, 1, 1, b[1])
                         /\ tasks' = tasks \cup NewTasks(CurSim, 1, 1, b[1], loc.questions)
            ELSE /\ loc' = Caught(loc, r.err)
                 /\ pass' = [pass EXCEPT !.pc = "markFailed"]
                 /\ UNCHANGED << simulations, hist, tasks >>
    /\ UNCHANGED << ewr, reconn, pq, elapsed, parked, survey_responses, questionTable, personasTable, queue_jobs, batchErr >>

\* one iteration of the loop of executeWithRetry(batch, maxRetries, 2000) after a delay:
\* the connection pre-check, then the operation (the dispatch of the batch)
StartAttempt(bi, att) ==
    LET dispatch ==
            /\ loc' = [loc EXCEPT !.bi = bi, !.attempt = att]
            /\ pass' = [pass EXCEPT !.pc = "batchWait"]
            /\ tasks' = tasks \cup NewTasks(CurSim, bi, att, loc.batches[bi], loc.questions)
            /\ hist' = HistDispatch(hist, CurSim, bi, att, loc.batches[bi])
    IN
    IF isConnected
    THEN /\ dispatch
         /\ UNCHANGED << isConnected, reconnectAttempts, failures >>
    ELSE \E rr \in ReconnectResults(isConnected, reconnectAttempts) :
           /\ (~rr.result /\ ~Forced) => failures < MaxFailures
           /\ failures' = IF ~rr.result /\ ~Forced THEN failures + 1 ELSE failures
           /\ isConnected' = rr.conn
           /\ reconnectAttempts' = rr.rc
           /\ IF rr.result
              THEN dispatch
              ELSE /\ UNCHANGED tasks
                   /\ IF att = maxRetries
                      THEN /\ loc' = Caught([loc EXCEPT !.bi = bi, !.attempt = att,
                                                        !.lastError = ErrReconnect], ErrReconnect)
                           /\ pass' = [pass EXCEPT !.pc = BatchFailurePc(ErrReconnect)]
                           /\ hist' = [hist EXCEPT ![CurSim].failedAt = bi]
                      ELSE /\ loc' = [loc EXCEPT !.bi = bi, !.attempt = att,
                                                 !.lastError = ErrReconnect]
                           /\ pass' = [pass EXCEPT !.pc = "batchBackoff"]
                           /\ UNCHANGED hist

\* await this.delay(1000); next iteration of the batch loop, or the end of
\* processRemainingPersonas and the start of the final update
NextBatch ==
    /\ pass.pc = "batchNext"
    /\ IF loc.bi + 1 > Len(loc.batches)
       THEN /\ pass' = [pass EXCEPT !.pc = "markRecovered"]
            /\ UNCHANGED << isConnected, reconnectAttempts, failures, loc, tasks, hist >>
       ELSE StartAttempt(loc.bi + 1, 1)
    /\ UNCHANGED << ewr, reconn, pq, elapsed, parked, storeVars, batchErr >>

\* await this.delay(delayMs * attempt); attempt++
RetryBatch ==
    /\ pass.pc = "batchBackoff"
    /\ StartAttempt(loc.bi, loc.attempt + 1)
    /\ UNCHANGED << ewr, reconn, pq, elapsed, parked, storeVars, batchErr >>

\* Promise.all resolved: every closure of the attempt has finished
BatchJoin ==
    /\ pass.pc = "batchWait"
    /\ batchErr = "none"
    /\ \A t \in tasks : ~t.live
    /\ pass' = [pass EXCEPT !.pc = "batchNext"]
    /\ UNCHANGED << isConnected, reconnectAttempts, ewr, reconn, pq, elapsed, parked, storeVars, loc, tasks, batchErr, hist, failures >>

\* Promise.all rejected with the first error: the catch block of executeWithRetry(batch)
BatchCatch ==
    /\ pass.pc = "batchWait"
    /\ batchErr # "none"
    /\ batchErr' = "none"
    /\ LET e == batchErr
           att == loc.attempt
           bi == loc.bi
           raise(x) ==
               /\ loc' = Caught([loc EXCEPT !.lastError = e], x)
               /\ pass' = [pass EXCEPT !.pc = BatchFailurePc(x)]
               /\ tasks' = Abandon(tasks)
               /\ hist' = [hist EXCEPT ![CurSim].failedAt = bi]
       IN
       IF isConnectionError(e)
       THEN \E rr \in ReconnectResults(FALSE, reconnectAttempts) :
              /\ (~rr.result /\ reconnectAttempts < maxReconnectAttempts) => failures < MaxFailures
              /\ failures' = IF ~rr.result /\ reconnectAttempts < maxReconnectAttempts
                             THEN failures + 1 ELSE failures
              /\ isConnected' = rr.conn
              /\ reconnectAttempts' = rr.rc
              /\ IF ~rr.result THEN raise(ErrConnLost)
                 ELSE IF att + 1 > maxRetries THEN raise(e)
                 ELSE /\ loc' = [loc EXCEPT !.lastError = e, !.attempt = att + 1]
                      /\ UNCHANGED pass
                      /\ tasks' = Abandon(tasks)
                                    \cup NewTasks(CurSim, bi, att + 1, loc.batches[bi], loc.questions)
                      /\ hist' = HistDispatch(hist, CurSim, bi, att + 1, loc.batches[bi])
       ELSE /\ UNCHANGED << isConnected, reconnectAttempts, failures >>
            /\ IF att = maxRetries THEN raise(e)
               ELSE /\ loc' = [loc EXCEPT !.lastError = e]
                    /\ pass' = [pass EXCEPT !.pc = "batchBackoff"]
                    /\ tasks' = Abandon(tasks)
                    /\ UNCHANGED hist
    /\ UNCHANGED << ewr, reconn, pq, elapsed, parked, storeVars >>

\* a closure throws: Promise.all rejects with the first error of its closures
TaskFail(t, error) ==
    /\ tasks' = tasks \ {t}
    /\ batchErr' = IF t.live /\ batchErr = "none" THEN error ELSE batchErr

\* savePersonaResponses: createMany of the responses; then updateSimulationCounters starts
TaskSave(t) ==
    /\ t \in tasks
    /\ t.pc = "save"
    /\ \E r \in CallResults :
         /\ StorageCall(r)
         /\ IF r.err = "ok"
            THEN /\ survey_responses' =
                      [survey_responses EXCEPT ![t.sim][t.u] = @ + t.responses]
                 /\ tasks' = (tasks \ {t}) \cup {[t EXCEPT !.pc = "count"]}
                 /\ hist' = IF t.no = pass.no
                            THEN [hist EXCEPT ![t.sim].saved[t.u] = @ + 1] ELSE hist
                 /\ UNCHANGED batchErr
            ELSE /\ TaskFail(t, r.err)
                 /\ UNCHANGED << survey_responses, hist >>
    /\ UNCHANGED << ewr, reconn, pq, elapsed, parked, simulations, questionTable, personasTable, queue_jobs, pass, loc >>

\* updateSimulationCounters: simulations.findUnique (the row exists: no work item is
\* ever deleted), then survey_responses.count.  The first query reads only columns
\* that never change, so the two reads are one step.
TaskCount(t) ==
    /\ t \in tasks
    /\ t.pc = "count"
    /\ \E r \in CallResults :
         /\ StorageCall(r)
         /\ IF r.err = "ok"
            THEN /\ tasks' = (tasks \ {t})
                                \cup {[t EXCEPT !.pc = "write", !.total = CountResponses(t.sim)]}
                 /\ UNCHANGED batchErr
            ELSE TaskFail(t, r.err)
    /\ UNCHANGED << ewr, reconn, pq, elapsed, parked, storeVars, pass, loc, hist >>

\* updateSimulationCounters: simulations.update({ successful_requests, progress_percentage, updatedAt })
TaskWrite(t) ==
    /\ t \in tasks
    /\ t.pc = "write"
    /\ \E r \in CallResults :
         /\ StorageCall(r)
         /\ IF r.err = "ok"
            THEN /\ simulations' = [simulations EXCEPT
                      ![t.sim].successful_requests = t.total,
                      ![t.sim].progress_percentage = Progress(t.total, simulations[t.sim]),
                      ![t.sim].updatedAge = 0]
                 /\ tasks' = tasks \ {t}
                 /\ UNCHANGED batchErr
            ELSE /\ TaskFail(t, r.err)
                 /\ UNCHANGED simulations
    /\ UNCHANGED << ewr, reconn, pq, elapsed, parked, survey_responses, questionTable, personasTable, queue_jobs, pass, loc, hist >>

\* simulations.update({ recovery_status: 'COMPLETED', resumed_at })
MarkRecovered ==
    /\ pass.pc = "markRecovered"
    /\ \E r \in CallResults :
         /\ StorageCall(r)
         /\ IF r.err = "ok"
            THEN /\ simulations' = [simulations EXCEPT ![CurSim] = RecoveredData(@)]
                 /\ pass' = TallyRecovered(pass)
                 /\ hist' = [hist EXCEPT ![CurSim].outcome = "recovered"]
                 /\ UNCHANGED loc
            ELSE /\ loc' = Caught(loc, r.err)
                 /\ pass' = [pass EXCEPT !.pc = "markFailed"]
                 /\ UNCHANGED << simulations, hist >>
    /\ UNCHANGED << ewr, reconn, pq, elapsed, parked, survey_responses, questionTable, personasTable, queue_jobs, tasks, batchErr >>

\* catch (error) { await executeWithRetry(update({ status: 'FAILED', recovery_status:
\* 'FAILED', error_message })); throw error }
MarkFailed ==
    /\ pass.pc = "markFailed"
    /\ \E r \in CallResults :
         /\ StorageCall(r)
         /\ IF r.err = "ok"
            THEN /\ simulations' = [simulations EXCEPT ![CurSim] = FailedData(@, loc.caught)]
                 /\ pass' = TallyFailed(pass, loc.caught)
                 /\ hist' = [hist EXCEPT ![CurSim].outcome = "failed",
                                         ![CurSim].cause = loc.caught, ![CurSim].marked = "ok"]
            ELSE /\ pass' = TallyFailed(pass, r.err)
                 /\ hist' = [hist EXCEPT ![CurSim].outcome = "failed",
                                         ![CurSim].cause = loc.caught, ![CurSim].marked = r.err]
                 /\ UNCHANGED simulations
    /\ UNCHANGED << ewr, reconn, pq, elapsed, parked, survey_responses, questionTable, personasTable, queue_jobs, loc, tasks, batchErr >>

-----------------------------------------------------------------------------
(* recoverStuckQueueJobs and the result of the pass                        *)

Finish(p) ==
    [p EXCEPT !.pc = "done",
              !.result = [recovered |-> p.recovered, failed |-> p.failed,
                          total |-> Len(p.candidates),
                          status |-> OverallStatus(p.recovered, p.failed),
                          issues |-> p.issues]]

\* stuckJobs = await executeWithRetry(simulation_queue_jobs.findMany ...); errors are swallowed
Reaper ==
    /\ pass.pc = "reaper"
    /\ \E r \in CallResults :
         /\ StorageCall(r)
         /\ IF r.err = "ok" /\ StuckJobs # {}
            THEN /\ loc' = [loc EXCEPT !.stuckJobs = StuckJobs]
                 /\ pass' = [pass EXCEPT !.pc = "reaperUpdate"]
            ELSE /\ pass' = Finish(pass)
                 /\ UNCHANGED loc
    /\ UNCHANGED << ewr, reconn, pq, elapsed, parked, storeVars, tasks, batchErr, hist >>

\* updateMany({ where: { id: { in: ids } }, data: { status: 'PENDING', started_at: null,
\* retry_count: { increment: 1 } } }); errors are swallowed
ReaperUpdate ==
    /\ pass.pc = "reaperUpdate"
    /\ \E r \in CallResults :
         /\ StorageCall(r)
         /\ queue_jobs' = IF r.err = "ok"
                          THEN [j \in Jobs |->
                                  IF j \in loc.stuckJobs
                                  THEN [queue_jobs[j] EXCEPT !.status = "PENDING",
                                            !.startedAge = -1, !.retry_count = @ + 1]
                                  ELSE queue_jobs[j]]
                          ELSE queue_jobs
    /\ pass' = Finish(pass)
    /\ UNCHANGED << ewr, reconn, pq, elapsed, parked, simulations, survey_responses, questionTable, personasTable,
                    loc, tasks, batchErr, hist >>

Next ==
    \/ StartPass
    \/ Scan
    \/ ResumeNext
    \/ LoopEnd
    \/ FetchQuestions
    \/ ResolveCheckpoint
    \/ MarkEmpty
    \/ FetchPersonas
    \/ MarkInProgress
    \/ NextBatch
    \/ RetryBatch
    \/ BatchJoin
    \/ BatchCatch
    \/ MarkRecovered
    \/ MarkFailed
    \/ Reaper
    \/ ReaperUpdate
    \/ \E t \in tasks : TaskSave(t)
    \/ \E t \in tasks : TaskCount(t)
    \/ \E t \in tasks : TaskWrite(t)

Spec == Init /\ [][Next]_vars

-----------------------------------------------------------------------------
(* Properties of a recovery pass (Spec)                                    *)

Candidates == Range(pass.candidates)
Declared(s) == Range(simulations[s].selected_persona_ids)
DoneAtResolve(s) == {u \in Units : hist[s].rows0[u] > 0}
SavedInPass(s) == {u \in Units : hist[s].saved[u] > 0}

C2_NoDoubleSave ==
    \A s \in Sims : \A u \in Units : hist[s].saved[u] <= 1

\* C3: when the remaining set of a candidate is empty, the pass generates no unit,
\* writes no result row and never sets recoveryStatus IN_PROGRESS for it, and the
\* step that counts it as recovered has set status COMPLETED, recoveryStatus
\* COMPLETED and progress 100.
C3_EmptyRemaining ==
    [][\A s \in Sims :
          (hist'[s].resolved /\ hist'[s].remaining0 = << >>) =>
              /\ hist'[s].gen = NoRows
              /\ hist'[s].saved = NoRows
              /\ ~hist'[s].sawInProgress
              /\ hist'[s].plan = << >>
              /\ (hist[s].outcome = "none" /\ hist'[s].outcome = "recovered") =>
                    /\ simulations'[s].status = "COMPLETED"
                    /\ simulations'[s].recovery_status = "COMPLETED"
                    /\ simulations'[s].progress_percentage = 100
                    /\ survey_responses' = survey_responses]_vars

C3_Witness ==
    /\ hist["s2"].resolved
    /\ hist["s2"].remaining0 = << >>
    /\ hist["s2"].outcome = "recovered"
    /\ simulations["s2"].status = "COMPLETED"

\* C4: the step that computes the remaining set of a work item yields its declared
\* unit ids, in declared order, minus the unit ids that have at least one result
\* row of that work item, and writes nothing to the store.
C4_RemainingSet ==
    [][(pass.pc = "resolve" /\ pass'.pc \in {"markEmpty", "personas"}) =>
          /\ loc'.remaining =
                SelectSeq(simulations[loc.sim].selected_persona_ids,
                          LAMBDA u : survey_responses[loc.sim][u] = 0)
          /\ Range(loc'.remaining) =
                Declared(loc.sim) \ {u \in Units : survey_responses[loc.sim][u] >= 1}
          /\ storeVars' = storeVars]_vars

C4_Witness ==
    /\ pass.pc = "personas"
    /\ loc.sim = "s1"
    /\ {u \in Units : survey_responses["s1"][u] > 0} = {1, 3}
    /\ loc.remaining = << 2 >>

\* C5: a candidate with a non-empty remaining set whose batches all succeed is
\* counted as recovered in status COMPLETED with recoveryStatus COMPLETED, having
\* been set IN_PROGRESS; it is not left RUNNING with recoveryStatus COMPLETED.
C5_EndsCompleted ==
    \A s \in Sims :
        (hist[s].outcome = "recovered" /\ hist[s].remaining0 # << >>) =>
            /\ hist[s].sawInProgress
            /\ simulations[s].status = "COMPLETED"
            /\ simulations[s].recovery_status = "COMPLETED"

C7_ScanContinues ==
    pass.idx >= 1 =>
        LET n == Len(pass.candidates)
            started(i) == i < pass.idx \/ (i = pass.idx /\ pass.pc # "loop")
        IN  /\ pass.idx <= n + 1
            /\ pass.recovered + pass.failed = pass.idx - 1
            /\ \A i \in 1..n :
                 hist[pass.candidates[i]].attempts = IF started(i) THEN 1 ELSE 0
            /\ \A i \in 1..n :
                 (i < pass.idx) <=> (hist[pass.candidates[i]].outcome # "none")
            /\ pass.recovered = Cardinality({s \in Sims : hist[s].outcome = "recovered"})
            /\ pass.failed = Cardinality({s \in Sims : hist[s].outcome = "failed"})
            /\ \A s \in Sims \ Candidates : hist[s].attempts = 0
            /\ pass.pc \in {"reaper", "reaperUpdate"} => pass.idx = n + 1
            /\ pass.pc = "done" /\ pass.result.total = n =>
                 pass.result.recovered + pass.result.failed = n

\* the first of two candidates failed, the second was recovered
C7_Witness ==
    /\ pass.pc = "done"
    /\ pass.candidates = << "s1", "s2" >>
    /\ hist["s1"].outcome = "failed"
    /\ hist["s2"].outcome = "recovered"
    /\ pass.result.recovered = 1
    /\ pass.result.failed = 1

\* C8: processRemainingPersonas runs ceil(n/k) batches in input order, and no unit
\* of a batch attempt is started while a unit of an earlier batch attempt of the
\* same call is still executing.
C8_BatchSequencing ==
    /\ \A t1 \in tasks : \A t2 \in tasks :
         ~(t1.live /\ ~t2.live /\ t1.sim = t2.sim /\ t1.no = t2.no)
    /\ pass.pc = "markRecovered" =>
         LET n == Len(loc.personas)
             first == SelectSeq(hist[loc.sim].dispatched, LAMBDA d : d[2] = 1)
         IN  /\ Len(first) = (n + batchSize - 1) \div batchSize
             /\ \A i \in 1..Len(first) : first[i][1] = i
             /\ \A i \in 1..Len(loc.batches) :
                  loc.batches[i] =
                      SubSeq(loc.personas, (i - 1) * batchSize + 1, Min(i * batchSize, n))

\* C9: once a batch has failed for good, processRemainingPersonas has raised, no
\* unit of a later batch is generated or persisted in the pass, and those units are
\* in the remaining set that the store yields.
C9_HaltAfterFailure ==
    \A s \in Sims :
        hist[s].failedAt > 0 =>
            /\ hist[s].outcome = "failed" \/ (loc.sim = s /\ pass.pc = "markFailed")
            /\ \A j \in (hist[s].failedAt + 1)..Len(hist[s].plan) :
                 \A u \in Range(hist[s].plan[j]) :
                    /\ hist[s].gen[u] = 0
                    /\ hist[s].saved[u] = 0
                    /\ survey_responses[s][u] = 0
                    /\ u \in Range(RemainingIds(simulations[s].selected_persona_ids,
                                                 getCompletedPersonaIds(s)))

\* batch 1 of 2 failed on every attempt
C9_Witness ==
    /\ hist["s1"].failedAt = 1
    /\ Len(hist["s1"].plan) = 2
    /\ hist["s1"].outcome = "failed"
    /\ hist["s1"].dispatched = << << 1, 1 >>, << 1, 2 >> >>

-----------------------------------------------------------------------------
(* Properties of executeWithRetry (SpecRetry)                              *)

\* The ways a call ends are those ExecResults lists for its starting session state.
EwrSummary ==
    ewr.pc \in {"returned", "raised"} =>
        [err |-> IF ewr.pc = "returned" THEN "ok" ELSE ewr.result,
         conn |-> isConnected, rc |-> reconnectAttempts]
            \in ExecResults(ewr.conn0, ewr.rc0)

C11_ReconnectKeepsSlot ==
    (ewr.pc = "raised" /\ ewr.conn0 /\ ewr.result # ErrConnLost) =>
        /\ ewr.result \in TransientErrors
        /\ Cardinality({i \in 1..Len(ewr.opErrors) : ewr.opErrors[i] \in TransientErrors})
              = ewr.maxRetries

\* C12: when reconnect() has returned false, in the pre-check or in the catch block,
\* the next thing the call does is raise a connection-lost error: no backoff wait,
\* no return to the loop.
C12_FailFast ==
    [][/\ (ewr.pc = "catch" /\ ewr.lastError = ErrReconnect) =>
              /\ ewr'.pc = "raised"
              /\ ewr'.waits = ewr.waits
              /\ ewr'.result \in {ErrConnLost, ErrReconnect}
       /\ (ewr.pc = "reconnectCatch" /\ ewr'.pc \notin {"reconnectCatch", "loop"}) =>
              /\ ewr'.pc = "raised"
              /\ ewr'.waits = ewr.waits
              /\ ewr'.result = ErrConnLost]_vars

-----------------------------------------------------------------------------
(* DatabaseService.reconnect under concurrent users (SpecConn): one step   *)
(* per await of reconnect().                                               *)

NewCall(f) == [f EXCEPT !.tried = FALSE, !.ret = "none"]

\* reconnect(), from its first line to its first await, entered with isConnected = conn
ReconnectEntry(c, conn, f) ==
    /\ isConnected' = conn
    /\ IF reconnectAttempts >= maxReconnectAttempts
       THEN /\ UNCHANGED reconnectAttempts
            /\ reconn' = [reconn EXCEPT !.fr[c] = [f EXCEPT !.pc = "idle", !.ret = "false"]]
       ELSE /\ reconnectAttempts' = reconnectAttempts + 1
            /\ reconn' = IF conn
                         THEN [reconn EXCEPT !.fr[c] = [f EXCEPT !.pc = "disconnect"]]
                         ELSE [reconn EXCEPT !.owner = c,
                                             !.fr[c] = [f EXCEPT !.pc = "connect", !.tried = TRUE]]

\* catch (error) { this.isConnected = false; if (attempts < max) { await delay; return this.reconnect() } return false }
ReconnectCatch(c) ==
    /\ isConnected' = FALSE
    /\ UNCHANGED reconnectAttempts
    /\ reconn' = IF reconnectAttempts < maxReconnectAttempts
                 THEN [reconn EXCEPT !.fr[c].pc = "delay"]
                 ELSE [reconn EXCEPT !.fr[c].pc = "idle", !.fr[c].ret = "false"]

\* executeWithRetry, catch of a connection error: this.isConnected = false; await this.reconnect()
CallerCatch(c) ==
    /\ c \in {"u1", "u2"}
    /\ reconn.fr[c].pc = "idle"
    /\ ReconnectEntry(c, FALSE, NewCall(reconn.fr[c]))
    /\ UNCHANGED << ewr, storeVars, passVars, pq, elapsed, parked >>

\* executeWithRetry, pre-check: if (!this.isConnected) await this.reconnect()
CallerPreCheck(c) ==
    /\ c \in {"u1", "u2"}
    /\ reconn.fr[c].pc = "idle"
    /\ ~isConnected
    /\ ReconnectEntry(c, isConnected, NewCall(reconn.fr[c]))
    /\ UNCHANGED << ewr, storeVars, passVars, pq, elapsed, parked >>

\* a tick of the monitor whose healthCheck query succeeds: this.isConnected = true
MonitorHealthy ==
    /\ reconn.fr["mon"].pc = "idle"
    /\ isConnected' = TRUE
    /\ UNCHANGED << reconnectAttempts, reconn, pq, elapsed, parked, ewr, storeVars, passVars >>

\* a tick of the monitor whose healthCheck query fails: this.isConnected = false,
\* healthCheck returns false and the tick calls reconnect()
MonitorUnhealthy ==
    /\ reconn.fr["mon"].pc = "idle"
    /\ ReconnectEntry("mon", FALSE, NewCall(reconn.fr["mon"]))
    /\ UNCHANGED << ewr, storeVars, passVars, pq, elapsed, parked >>

\* await this.prisma.$disconnect(); this.prisma = new PrismaClient(); then $connect starts
TearDown(c) ==
    /\ reconn.fr[c].pc = "disconnect"
    /\ \/ /\ reconn' = [reconn EXCEPT !.owner = c, !.fr[c].pc = "connect", !.fr[c].tried = TRUE]
          /\ UNCHANGED << isConnected, reconnectAttempts >>
       \/ ReconnectCatch(c)
    /\ UNCHANGED << ewr, storeVars, passVars, pq, elapsed, parked >>

\* await this.prisma.$connect(); this.isConnected = true; this.reconnectAttempts = 0; return true
Connect(c) ==
    /\ reconn.fr[c].pc = "connect"
    /\ \/ /\ isConnected' = TRUE
          /\ reconnectAttempts' = 0
          /\ reconn' = [reconn EXCEPT !.fr[c].pc = "idle", !.fr[c].ret = "true"]
       \/ ReconnectCatch(c)
    /\ UNCHANGED << ewr, storeVars, passVars, pq, elapsed, parked >>

\* await this.delay(this.reconnectDelay); return this.reconnect()
RetryReconnect(c) ==
    /\ reconn.fr[c].pc = "delay"
    /\ ReconnectEntry(c, isConnected, reconn.fr[c])
    /\ UNCHANGED << ewr, storeVars, passVars, pq, elapsed, parked >>

ConnInit ==
    /\ isConnected = TRUE
    /\ reconnectAttempts = 0
    /\ ewr = EwrIdle
    /\ reconn = ReconnIdle
    /\ pq = PqIdle
    /\ elapsed = 0
    /\ parked = ParkedIdle
    /\ InitRetryStore
    /\ InitPassFrame

ConnNext ==
    \/ \E c \in Callers : CallerCatch(c)
    \/ \E c \in Callers : CallerPreCheck(c)
    \/ MonitorHealthy
    \/ MonitorUnhealthy
    \/ \E c \in Callers : TearDown(c)
    \/ \E c \in Callers : Connect(c)
    \/ \E c \in Callers : RetryReconnect(c)

SpecConn == ConnInit /\ [][ConnNext]_vars

\* the calls of reconnect() that have started and not returned
InFlight == {c \in Callers : reconn.fr[c].pc # "idle"}

\* C13: every call of reconnect() that has returned made at least one connection
\* attempt (also a call made after an earlier call used up the 10 attempts), and
\* returned true only after an attempt of its own.
C13_ReconnectAlwaysTries ==
    \A c \in Callers :
        (reconn.fr[c].pc = "idle" /\ reconn.fr[c].ret # "none") => reconn.fr[c].tried

\* C14: at most one call of reconnect() is in flight at any time.
C14_ReconnectSerialized ==
    Cardinality(InFlight) <= 1

-----------------------------------------------------------------------------
(* The operations the cron tasks call, one after another (SpecOps):        *)
(* checkAndRecoverIncompleteSimulations (the actions of Spec),             *)
(* checkAndRecoverFailedSimulations, checkAndRecoverStuckSimulations,      *)
(* cleanupOldJobs, RecoveryService.healthCheck, and the monitor's tick.    *)
(* A timestamp that is null is the age -1; a deleted queue job keeps its   *)
(* key with status DELETED.                                                *)

JobOf(s) == simulations[s].queue_job_id

\* LEFT JOIN simulation_queue_jobs qj ON s.queue_job_id = qj.job_id: the row joined, if any
JobExists(j) == j \in Jobs /\ queue_jobs[j].status # "DELETED"

\* WHERE s.status = 'FAILED' AND (qj.retry_count < qj.max_retries OR qj.retry_count IS NULL)
\*   AND s.createdAt > NOW() - INTERVAL '24 hours'
SelectFailed ==
    SelectSeq(SimOrder, LAMBDA s :
        /\ simulations[s].status = "FAILED"
        /\ IF JobExists(JobOf(s))
           THEN queue_jobs[JobOf(s)].retry_count < queue_jobs[JobOf(s)].max_retries
           ELSE TRUE
        /\ simulations[s].createdAge < failedWindowMinutes)

\* WHERE s.status = 'RUNNING' AND s.updatedAt < NOW() - INTERVAL '10 minutes'
SelectStuckMut ==
    SelectSeq(SimOrder, LAMBDA s :
        simulations[s].status = "RUNNING" /\ simulations[s].updatedAge >= stuckMinutes - 1)
SelectStuck ==
    SelectSeq(SimOrder, LAMBDA s :
        simulations[s].status = "RUNNING" /\ simulations[s].updatedAge > stuckMinutes)

SelectFor(op) == IF op = "failed" THEN SelectFailed ELSE SelectStuck

\* UPDATE simulations SET status = 'PENDING', updatedAt = NOW(), error_message = ...
ResetSimDataMut(op, row) ==
    [row EXCEPT !.status = "PENDING", !.updatedAge = 0, !.selected_persona_ids = << >>,
                !.error_message = IF op = "failed" THEN "null" ELSE "Recovered from stuck state"]
ResetSimData(op, row) ==
    [row EXCEPT !.status = "PENDING", !.updatedAge = 0,
                !.error_message = IF op = "failed" THEN "null" ELSE "Recovered from stuck state"]

\* UPDATE simulation_queue_jobs SET status = 'PENDING', retry_count = 0, error_message = ..., failed_at = NULL
ResetJobData(op, row) ==
    [row EXCEPT !.status = "PENDING", !.retry_count = 0, !.failedAge = -1,
                !.error_message = IF op = "failed" THEN "null" ELSE "Recovered from stuck state"]

\* status: failed > 0 ? 'WARNING' : 'HEALTHY'
MaintStatus(failed) == IF failed > 0 THEN "WARNING" ELSE "HEALTHY"

MaintResult(p) ==
    [recovered |-> p.recovered, failed |-> p.failed, total |-> Len(p.candidates),
     status |-> MaintStatus(p.failed),
     issues |-> IF p.failed > 0 THEN << "Failed to recover simulations" >> ELSE << >>]

\* the outer catch of checkAndRecoverFailedSimulations / checkAndRecoverStuckSimulations
MaintFatal ==
    [recovered |-> 0, failed |-> 1, total |-> 1, status |-> "UNHEALTHY",
     issues |-> << "Recovery process failed" >>]

\* what cleanupOldJobs and healthCheck hand to their caller: "returned", "raised", "true", "false"
Outcome(x, error) ==
    [recovered |-> 0, failed |-> 0, total |-> 0, status |-> x,
     issues |-> IF x = "raised" THEN << error >> ELSE << >>]

\* a tally that forgets failed++ in the catch of the loop body
MaintTallyMut(p, ok) ==
    LET q == [p EXCEPT !.recovered = IF ok THEN @ + 1 ELSE @,
                       !.idx = @ + 1]
    IN  IF q.idx > Len(q.candidates)
        THEN [q EXCEPT !.pc = "done", !.result = MaintResult(q)]
        ELSE [q EXCEPT !.pc = "resetSim"]

\* recovered++ or failed++, then the next candidate or the return of the result
MaintTally(p, ok) ==
    LET q == [p EXCEPT !.recovered = IF ok THEN @ + 1 ELSE @,
                       !.failed = IF ok THEN @ ELSE @ + 1,
                       !.idx = @ + 1]
    IN  IF q.idx > Len(q.candidates)
        THEN [q EXCEPT !.pc = "done", !.result = MaintResult(q)]
        ELSE [q EXCEPT !.pc = "resetSim"]

\* try { const prisma = this.database.getClient(); ... the query starts
StartMaintPass(op) ==
    /\ op \in {"failed", "stuck"}
    /\ pass.pc \in {"idle", "done"}
    /\ pass.no < MaxPasses
    /\ pass' = IF getClientThrows(isConnected)
               THEN [PassIdle EXCEPT !.op = op, !.no = pass.no + 1, !.pc = "done",
                                     !.result = MaintFatal]
               ELSE [PassIdle EXCEPT !.op = op, !.no = pass.no + 1, !.pc = "query"]
    /\ UNCHANGED << isConnected, reconnectAttempts, ewr, reconn, pq, elapsed, parked, storeVars, loc, tasks,
                    batchErr, hist, failures >>

\* failedSimulations / stuckSimulations = await executeWithRetry($queryRaw ...);
\* if (length === 0) return the empty result
MaintQuery ==
    /\ pass.pc = "query"
    /\ \E r \in CallResults :
         /\ StorageCall(r)
         /\ pass' = IF r.err # "ok"
                    THEN [pass EXCEPT !.pc = "done", !.result = MaintFatal]
                    ELSE LET c == SelectFor(pass.op) IN
                         IF c = << >>
                         THEN [pass EXCEPT !.pc = "done", !.result = MaintResult(pass)]
                         ELSE [pass EXCEPT !.candidates = c, !.idx = 1, !.pc = "resetSim"]
    /\ UNCHANGED << ewr, reconn, pq, elapsed, parked, storeVars, loc, tasks, batchErr, hist >>

\* await executeWithRetry(UPDATE simulations ...); if (simulation.queue_job_id) ...
MaintResetSim ==
    /\ pass.pc = "resetSim"
    /\ LET s == pass.candidates[pass.idx] IN
       \E r \in CallResults :
         /\ StorageCall(r)
         /\ IF r.err = "ok"
            THEN /\ simulations' = [simulations EXCEPT ![s] = ResetSimData(pass.op, @)]
                 /\ pass' = IF JobOf(s) # "null" THEN [pass EXCEPT !.pc = "resetJob"]
                            ELSE MaintTally(pass, TRUE)
            ELSE /\ pass' = MaintTally(pass, FALSE)
                 /\ UNCHANGED simulations
    /\ UNCHANGED << ewr, reconn, pq, elapsed, parked, survey_responses, questionTable, personasTable, queue_jobs,
                    loc, tasks, batchErr, hist >>

\* await executeWithRetry(UPDATE simulation_queue_jobs ... WHERE job_id = queue_job_id); recovered++
MaintResetJob ==
    /\ pass.pc = "resetJob"
    /\ LET j == JobOf(pass.candidates[pass.idx]) IN
       \E r \in CallResults :
         /\ StorageCall(r)
         /\ IF r.err = "ok"
            THEN /\ queue_jobs' = IF JobExists(j)
                                  THEN [queue_jobs EXCEPT ![j] = ResetJobData(pass.op, @)]
                                  ELSE queue_jobs
                 /\ pass' = MaintTally(pass, TRUE)
            ELSE /\ pass' = MaintTally(pass, FALSE)
                 /\ UNCHANGED queue_jobs
    /\ UNCHANGED << ewr, reconn, pq, elapsed, parked, simulations, survey_responses, questionTable, personasTable,
                    loc, tasks, batchErr, hist >>

\* cleanupOldJobs: const prisma = this.database.getClient() is outside the try block
StartCleanup ==
    /\ pass.pc \in {"idle", "done"}
    /\ pass.no < MaxPasses
    /\ pass' = IF getClientThrows(isConnected)
               THEN [PassIdle EXCEPT !.op = "cleanup", !.no = pass.no + 1, !.pc = "done",
                                     !.result = Outcome("raised", ErrNotConnected)]
               ELSE [PassIdle EXCEPT !.op = "cleanup", !.no = pass.no + 1, !.pc = "delete"]
    /\ UNCHANGED << isConnected, reconnectAttempts, ewr, reconn, pq, elapsed, parked, storeVars, loc, tasks,
                    batchErr, hist, failures >>

\* where: { OR: [{ status: 'COMPLETED', completed_at: { lt: cutoffDate } },
\*               { status: 'FAILED', failed_at: { lt: cutoffDate } }] }
ExpiredMut(row) ==
    \/ row.status = "COMPLETED" /\ row.completedAge >= 0
    \/ row.status = "FAILED" /\ row.failedAge > cleanupMinutes
Expired(row) ==
    \/ row.status = "COMPLETED" /\ row.completedAge > cleanupMinutes
    \/ row.status = "FAILED" /\ row.failedAge > cleanupMinutes

\* deleteMany of the COMPLETED / FAILED jobs older than 7 days; an error is logged
CleanupDelete ==
    /\ pass.pc = "delete"
    /\ \E r \in CallResults :
         /\ StorageCall(r)
         /\ queue_jobs' =
              IF r.err # "ok" THEN queue_jobs
              ELSE [j \in Jobs |->
                      IF Expired(queue_jobs[j])
                      THEN [queue_jobs[j] EXCEPT !.status = "DELETED"]
                      ELSE queue_jobs[j]]
    /\ pass' = [pass EXCEPT !.pc = "done", !.result = Outcome("returned", "none")]
    /\ UNCHANGED << ewr, reconn, pq, elapsed, parked, simulations, survey_responses, questionTable, personasTable,
                    loc, tasks, batchErr, hist >>

\* RecoveryService.healthCheck: DatabaseService.healthCheck sets isConnected from SELECT 1
HealthCheck ==
    /\ pass.pc \in {"idle", "done"}
    /\ pass.no < MaxPasses
    /\ \E ok \in BOOLEAN :
         /\ isConnected' = ok
         /\ pass' = [PassIdle EXCEPT !.op = "health", !.no = pass.no + 1, !.pc = "done",
                        !.result = Outcome(IF ok THEN "true" ELSE "false", "none")]
    /\ UNCHANGED << reconnectAttempts, ewr, reconn, pq, elapsed, parked, storeVars, loc, tasks, batchErr,
                    hist, failures >>

\* connection states an operation can start in: connected, marked not connected,
\* reconnect exhausted, and exhausted but marked connected again by a health check
ConnStates == { << TRUE, 0 >>, << FALSE, 0 >>, << FALSE, maxReconnectAttempts >>,
                << TRUE, maxReconnectAttempts >> }

\* initial stores of SpecOps:
\* << status of s1, status of s2, createdAge of s2, queue_job_id of s2, retry_count of j2 >>
OpsScenarios ==
    { << "RUNNING", "FAILED", 60, "j2", 1 >>,
      << "FAILED", "FAILED", 60, "j2", 3 >>,
      << "FAILED", "FAILED", 60, "null", 1 >>,
      << "RUNNING", "FAILED", 1500, "j2", 1 >>,
      << "FAILED", "FAILED", 60, "j3", 1 >>,
      << "RUNNING", "RUNNING", 60, "j2", 1 >> }

\* the store of the boundary cases: s1 updated 11 minutes ago and s2 9 minutes ago,
\* both RUNNING; j1 completed 8 days ago and j2 6 days ago (jobs of older work items)
OpsBoundaryStore ==
    /\ simulations = [s \in Sims |->
          IF s = "s1"
          THEN [SimRow(<< 1, 2, 3 >>, "RUNNING", 20) EXCEPT !.updatedAge = stuckMinutes + 1]
          ELSE [SimRow(<< 3, 1 >>, "RUNNING", 20) EXCEPT !.updatedAge = stuckMinutes - 1]]
    /\ survey_responses = [s \in Sims |-> [u \in Units |->
          IF u \in (IF s = "s1" THEN {1, 3} ELSE {3}) THEN 1 ELSE 0]]
    /\ questionTable = [q \in Surveys |-> 1]
    /\ personasTable = Units
    /\ queue_jobs = [j \in Jobs |->
          IF j = "j1"
          THEN [JobRow("COMPLETED", 11600) EXCEPT !.completedAge = cleanupMinutes + 1440]
          ELSE [JobRow("COMPLETED", 8700) EXCEPT !.completedAge = cleanupMinutes - 1440]]

OpsInitStore ==
    \/ OpsBoundaryStore
    \/ \E sc \in OpsScenarios :
        /\ simulations = [s \in Sims |->
              IF s = "s1"
              THEN [SimRow(<< 1, 2, 3 >>, sc[1], 20) EXCEPT
                        !.queue_job_id = "j1",
                        !.error_message = IF sc[1] = "FAILED" THEN "db_error_a" ELSE "null"]
              ELSE [SimRow(<< 3, 1 >>, sc[2], sc[3]) EXCEPT
                        !.queue_job_id = sc[4],
                        !.error_message = IF sc[2] = "FAILED" THEN "db_error_a" ELSE "null"]]
        /\ survey_responses = [s \in Sims |-> [u \in Units |->
              IF u \in (IF s = "s1" THEN {1, 3} ELSE {3}) THEN 1 ELSE 0]]
        /\ questionTable = [q \in Surveys |-> 1]
        /\ personasTable = Units
        /\ queue_jobs = [j \in Jobs |->
              IF j = "j1"
              THEN [JobRow(IF sc[1] = "FAILED" THEN "FAILED" ELSE "PROCESSING", 31) EXCEPT
                        !.retry_count = 2,
                        !.error_message = IF sc[1] = "FAILED" THEN "db_error_a" ELSE "null",
                        !.failedAge = IF sc[1] = "FAILED" THEN 20 ELSE -1]
              ELSE [JobRow(IF sc[2] = "FAILED" THEN "FAILED" ELSE "PROCESSING", 29) EXCEPT
                        !.retry_count = sc[5],
                        !.error_message = IF sc[2] = "FAILED" THEN "db_error_a" ELSE "null",
                        !.failedAge = IF sc[2] = "FAILED" THEN 8 * sc[3] ELSE -1]]

OpsInit ==
    /\ \E cs \in ConnStates :
         /\ isConnected = cs[1]
         /\ reconnectAttempts = cs[2]
    /\ ewr = EwrIdle
    /\ reconn = ReconnIdle
    /\ pq = PqIdle
    /\ elapsed = 0
    /\ parked = ParkedIdle
    /\ OpsInitStore
    /\ InitPassFrame

OpsNext ==
    \/ StartPass
    \/ Scan
    \/ ResumeNext
    \/ LoopEnd
    \/ FetchQuestions
    \/ ResolveCheckpoint
    \/ MarkEmpty
    \/ FetchPersonas
    \/ MarkInProgress
    \/ NextBatch
    \/ RetryBatch
    \/ BatchJoin
    \/ BatchCatch
    \/ MarkRecovered
    \/ MarkFailed
    \/ Reaper
    \/ ReaperUpdate
    \/ \E t \in tasks : TaskSave(t)
    \/ \E t \in tasks : TaskCount(t)
    \/ \E t \in tasks : TaskWrite(t)
    \/ \E op \in {"failed", "stuck"} : StartMaintPass(op)
    \/ MaintQuery
    \/ MaintResetSim
    \/ MaintResetJob
    \/ StartCleanup
    \/ CleanupDelete
    \/ HealthCheck
    \/ MonitorHealthy

SpecOps == OpsInit /\ [][OpsNext]_vars

-----------------------------------------------------------------------------
(* Properties of the operations (SpecOps)                                  *)

ResultStatuses == {"HEALTHY", "WARNING", "UNHEALTHY"}

\* C15: checkAndRecoverIncompleteSimulations, checkAndRecoverFailedSimulations,
\* checkAndRecoverStuckSimulations and healthCheck never raise: whatever the
\* connection state they start in and whatever storage call fails, a call that has
\* ended has returned a RecoveryResult (healthCheck: a boolean).
C15_NeverRaise ==
    pass.pc = "done" =>
        /\ pass.op \in {"incomplete", "failed", "stuck"} =>
              /\ pass.result.status \in ResultStatuses
              /\ pass.result.recovered \in Nat
              /\ pass.result.failed \in Nat
              /\ pass.result.total \in Nat
        /\ pass.op = "health" => pass.result.status \in {"true", "false"}

\* a pass over two candidates during which the reconnects were exhausted has returned
C15_Witness ==
    /\ pass.pc = "done"
    /\ pass.op = "incomplete"
    /\ Len(pass.candidates) = 2
    /\ pass.failed >= 1
    /\ ~isConnected
    /\ reconnectAttempts = maxReconnectAttempts
    /\ pass.result.status = "UNHEALTHY"

\* C16: recoverStuckQueueJobs and cleanupOldJobs never propagate a failure: a call of
\* cleanupOldJobs that has ended has returned normally, whatever the connection state;
\* and once the loop over the candidates has been entered, the result of the pass is
\* made of the tallies of the loop, whatever happens in recoverStuckQueueJobs.
C16_BestEffort ==
    /\ (pass.pc = "done" /\ pass.op = "cleanup") => pass.result.status = "returned"
    /\ (pass.pc = "done" /\ pass.op = "incomplete" /\ pass.idx >= 1) =>
          /\ pass.result.recovered = pass.recovered
          /\ pass.result.failed = pass.failed
          /\ pass.result.total = Len(pass.candidates)
          /\ pass.result.status = OverallStatus(pass.recovered, pass.failed)

\* C17: a pass in which the resumption of a candidate failed because the reconnects
\* were exhausted returns the synthetic result: recovered 0, failed 1, total 1, one
\* issue, status UNHEALTHY.
C17_ExhaustedIsFatal ==
    (/\ pass.pc = "done"
     /\ pass.op = "incomplete"
     /\ \E i \in 1..Len(pass.issues) : pass.issues[i] \in {ErrConnLost, ErrReconnect})
    =>  /\ pass.result.status = "UNHEALTHY"
        /\ pass.result.recovered = 0
        /\ pass.result.failed = 1
        /\ pass.result.total = 1
        /\ Len(pass.result.issues) = 1

\* the aggregate derivation: HEALTHY if failed = 0, WARNING if 0 < failed <= recovered,
\* UNHEALTHY if failed > recovered
Derived(result) ==
    /\ result.failed = 0 => result.status = "HEALTHY"
    /\ (0 < result.failed /\ result.failed <= result.recovered) => result.status = "WARNING"
    /\ result.failed > result.recovered => result.status = "UNHEALTHY"

\* C18: the status returned by checkAndRecoverIncompleteSimulations follows the
\* aggregate derivation, for every pair of tallies a pass produces.
C18_IncompleteStatus ==
    (pass.pc = "done" /\ pass.op = "incomplete") => Derived(pass.result)

\* one candidate recovered and one failed: WARNING
C18_Witness ==
    /\ pass.pc = "done"
    /\ pass.op = "incomplete"
    /\ pass.result.recovered = 1
    /\ pass.result.failed = 1
    /\ pass.result.total = 2
    /\ pass.result.status = "WARNING"

\* C19: the status returned by checkAndRecoverFailedSimulations and by
\* checkAndRecoverStuckSimulations follows the aggregate derivation.
C19_MaintStatusDerived ==
    (pass.pc = "done" /\ pass.op \in {"failed", "stuck"}) => Derived(pass.result)

\* the work items checkAndRecoverFailedSimulations is to select
Retryable ==
    {s \in Sims :
        /\ simulations[s].status = "FAILED"
        /\ simulations[s].createdAge < failedWindowMinutes
        /\ \/ simulations[s].queue_job_id \notin {j \in Jobs : queue_jobs[j].status # "DELETED"}
           \/ queue_jobs[simulations[s].queue_job_id].retry_count
                 < queue_jobs[simulations[s].queue_job_id].max_retries}

\* C20: checkAndRecoverFailedSimulations selects exactly the FAILED work items of the
\* last 24 hours whose queue job has retryCount < maxRetries or that have no queue job;
\* a step of it writes no unit result, changes only the selected work item or its
\* queue job, sets them to PENDING with the error fields cleared, and changes no
\* other field of the queue job.
C20_FailedRecovery ==
    [][(pass.op = "failed" /\ pass' # pass /\ pass.pc \in {"query", "resetSim", "resetJob"}) =>
          /\ survey_responses' = survey_responses
          /\ (pass.pc = "query" /\ pass'.pc = "resetSim") =>
                Range(pass'.candidates) = Retryable
          /\ (pass.pc = "query" /\ pass'.pc = "done" /\ pass'.result.total = 0) =>
                Retryable = {}
          /\ pass.pc = "query" => (simulations' = simulations /\ queue_jobs' = queue_jobs)
          /\ pass.pc = "resetSim" =>
                LET s == pass.candidates[pass.idx] IN
                /\ queue_jobs' = queue_jobs
                /\ \A t \in Sims \ {s} : simulations'[t] = simulations[t]
                /\ simulations'[s] # simulations[s] =>
                      simulations'[s] = [simulations[s] EXCEPT !.status = "PENDING",
                                            !.error_message = "null", !.updatedAge = 0]
          /\ pass.pc = "resetJob" =>
                LET j == simulations[pass.candidates[pass.idx]].queue_job_id IN
                /\ simulations' = simulations
                /\ \A k \in Jobs \ {j} : queue_jobs'[k] = queue_jobs[k]
                /\ (j \in Jobs /\ queue_jobs'[j] # queue_jobs[j]) =>
                      /\ queue_jobs'[j].status = "PENDING"
                      /\ queue_jobs'[j].error_message = "null"
                      /\ queue_jobs'[j].failedAge = -1
                      /\ queue_jobs'[j].retry_count = queue_jobs[j].retry_count
                      /\ queue_jobs'[j].max_retries = queue_jobs[j].max_retries
                      /\ queue_jobs'[j].startedAge = queue_jobs[j].startedAge
                      /\ queue_jobs'[j].completedAge = queue_jobs[j].completedAge]_vars

-----------------------------------------------------------------------------
(* Counters, repetition and sequencing of a recovery pass (Spec)           *)

\* C27: during a recovery pass the progress_percentage of a work item stays within
\* 0..100 and never decreases, and its successful_requests never decreases, under
\* every interleaving of the units of a batch, each of which counts the result rows
\* and then writes the counters.
C27_CountersMonotone ==
    [][\A s \in Sims :
          /\ simulations'[s].progress_percentage \in 0..100
          /\ simulations'[s].progress_percentage >= simulations[s].progress_percentage
          /\ simulations'[s].successful_requests >= simulations[s].successful_requests]_vars

\* C28: running checkAndRecoverIncompleteSimulations twice in a row does not
\* double-count: a work item the first pass counted as recovered (its row carries
\* recovery_status COMPLETED, which only a recovered resumption writes) is not selected
\* by the second pass, and the second pass changes no row of it.
C28_SecondPassIdle ==
    [][pass.no = 2 =>
          /\ (pass.pc = "scan" /\ pass'.pc # "done") =>
                \A s \in Range(pass'.candidates) : simulations[s].recovery_status # "COMPLETED"
          /\ \A s \in Sims :
                (hist[s].attempts = 0 /\ simulations[s].recovery_status = "COMPLETED") =>
                    simulations'[s] = simulations[s]]_vars

\* C29: within one pass the work items are processed strictly sequentially: once the
\* resumption of another candidate has started, no unit closure of an earlier
\* candidate of the pass writes a result row or the counters.
C29_Sequential ==
    [][\A t \in tasks :
          (/\ t.no = pass.no
           /\ loc.sim \in Sims
           /\ t.sim # loc.sim
           /\ t \notin tasks')
          => (survey_responses' = survey_responses /\ simulations' = simulations)]_vars

-----------------------------------------------------------------------------
(* processQueueJobs, running concurrently with the operations of the cron  *)
(* tasks, and the passing of time (SpecQueue).  A step of Elapse lets      *)
(* stuckJobMinutes + 1 minutes pass: every timestamp that is set grows     *)
(* older by that much.                                                     *)

\* WHERE status = 'PENDING' ORDER BY priority DESC, created_at ASC LIMIT 1: priority
\* and created_at are inputs, any pending job can be the first
PendingJobs == {j \in Jobs : queue_jobs[j].status = "PENDING"}

\* catch (error) { this.logger.error(...) }: the call returns
PqReturn(f) == [f EXCEPT !.pc = "idle", !.job = "none"]

\* try { const prisma = this.database.getClient(); ... the query starts
PqStart ==
    /\ pq.pc = "idle"
    /\ pq.calls < MaxQueueCalls
    /\ pq' = IF getClientThrows(isConnected)
             THEN [pq EXCEPT !.calls = @ + 1]
             ELSE [pq EXCEPT !.calls = @ + 1, !.pc = "select"]
    /\ UNCHANGED << isConnected, reconnectAttempts, ewr, reconn, parked, storeVars, passVars, elapsed >>

\* nextJob = await executeWithRetry($queryRaw ...); if (nextJob.length === 0) return
PqSelect ==
    /\ pq.pc = "select"
    /\ \E r \in CallResults :
         /\ StorageCall(r)
         /\ IF r.err # "ok" \/ PendingJobs = {}
            THEN pq' = PqReturn(pq)
            ELSE \E j \in PendingJobs : pq' = [pq EXCEPT !.pc = "markProcessing", !.job = j]
    /\ UNCHANGED << ewr, reconn, parked, storeVars, pass, loc, tasks, batchErr, hist, elapsed >>

\* UPDATE simulation_queue_jobs SET status = 'PROCESSING', started_at = NOW() WHERE id = job.id
PqMarkProcessing ==
    /\ pq.pc = "markProcessing"
    /\ \E r \in CallResults :
         /\ StorageCall(r)
         /\ IF r.err = "ok"
            THEN /\ queue_jobs' = IF JobExists(pq.job)
                                  THEN [queue_jobs EXCEPT ![pq.job].status = "PROCESSING",
                                                          ![pq.job].startedAge = 0]
                                  ELSE queue_jobs
                 /\ pq' = [pq EXCEPT !.pc = "markRunning"]
            ELSE /\ pq' = PqReturn(pq)
                 /\ UNCHANGED queue_jobs
    /\ UNCHANGED << ewr, reconn, parked, simulations, survey_responses, questionTable, personasTable,
                    pass, loc, tasks, batchErr, hist, elapsed >>

\* UPDATE simulations SET status = 'RUNNING', updatedAt = NOW() WHERE queue_job_id = job.job_id;
\* then processSimulationJob, which waits two seconds
PqMarkRunning ==
    /\ pq.pc = "markRunning"
    /\ \E r \in CallResults :
         /\ StorageCall(r)
         /\ IF r.err = "ok"
            THEN /\ simulations' = [s \in Sims |->
                        IF JobOf(s) = pq.job
                        THEN [simulations[s] EXCEPT !.status = "RUNNING", !.updatedAge = 0]
                        ELSE simulations[s]]
                 /\ pq' = [pq EXCEPT !.pc = "markCompleted"]
            ELSE /\ pq' = PqReturn(pq)
                 /\ UNCHANGED simulations
    /\ UNCHANGED << ewr, reconn, parked, survey_responses, questionTable, personasTable, queue_jobs,
                    pass, loc, tasks, batchErr, hist, elapsed >>

\* UPDATE simulation_queue_jobs SET status = 'COMPLETED', completed_at = NOW(),
\* progress_percentage = 100 WHERE id = job.id
PqMarkCompleted ==
    /\ pq.pc = "markCompleted"
    /\ \E r \in CallResults :
         /\ StorageCall(r)
         /\ IF r.err = "ok"
            THEN /\ queue_jobs' = IF JobExists(pq.job)
                                  THEN [queue_jobs EXCEPT ![pq.job].status = "COMPLETED",
                                                          ![pq.job].completedAge = 0]
                                  ELSE queue_jobs
                 /\ pq' = [pq EXCEPT !.pc = "simCompleted"]
            ELSE /\ pq' = PqReturn(pq)
                 /\ UNCHANGED queue_jobs
    /\ UNCHANGED << ewr, reconn, parked, simulations, survey_responses, questionTable, personasTable,
                    pass, loc, tasks, batchErr, hist, elapsed >>

\* UPDATE simulations SET status = 'COMPLETED', updatedAt = NOW(), progress_percentage = 100
\* WHERE queue_job_id = job.job_id
PqSimCompleted ==
    /\ pq.pc = "simCompleted"
    /\ \E r \in CallResults :
         /\ StorageCall(r)
         /\ simulations' =
              IF r.err # "ok" THEN simulations
              ELSE [s \in Sims |->
                      IF JobOf(s) = pq.job
                      THEN [simulations[s] EXCEPT !.status = "COMPLETED", !.updatedAge = 0,
                                                  !.progress_percentage = 100]
                      ELSE simulations[s]]
    /\ pq' = PqReturn(pq)
    /\ UNCHANGED << ewr, reconn, parked, survey_responses, questionTable, personasTable, queue_jobs,
                    pass, loc, tasks, batchErr, hist, elapsed >>

\* a timestamp after d more minutes; null stays null
AgeBy(age, d) == IF age < 0 THEN age ELSE age + d

\* NOW() and Date.now() move on by stuckJobMinutes + 1 minutes
Elapse ==
    /\ elapsed < MaxElapses
    /\ elapsed' = elapsed + 1
    /\ simulations' = [s \in Sims |->
            [simulations[s] EXCEPT !.createdAge = AgeBy(@, stuckJobMinutes + 1),
                                   !.updatedAge = AgeBy(@, stuckJobMinutes + 1)]]
    /\ queue_jobs' = [j \in Jobs |->
            [queue_jobs[j] EXCEPT !.startedAge = AgeBy(@, stuckJobMinutes + 1),
                                  !.failedAge = AgeBy(@, stuckJobMinutes + 1),
                                  !.completedAge = AgeBy(@, stuckJobMinutes + 1)]]
    /\ UNCHANGED << isConnected, reconnectAttempts, ewr, reconn, parked, survey_responses,
                    questionTable, personasTable, passVars, pq >>

\* initial stores of SpecQueue: << status of s2, status of j2, retry_count of j2 >>;
\* s1 is RUNNING with its job j1 PROCESSING for 31 minutes after two retries; a
\* COMPLETED s2 has all its rows and a job that completed 8 days ago
QueueScenarios ==
    { << "FAILED", "FAILED", 1 >>,
      << "PENDING", "PENDING", 0 >>,
      << "COMPLETED", "COMPLETED", 0 >> }

QueueInitStore ==
    \E sc \in QueueScenarios :
        /\ simulations = [s \in Sims |->
              IF s = "s1"
              THEN [SimRow(<< 1, 2, 3 >>, "RUNNING", 20) EXCEPT !.queue_job_id = "j1"]
              ELSE [SimRow(<< 3, 1 >>, sc[1], IF sc[1] = "COMPLETED" THEN 12000 ELSE 60) EXCEPT
                        !.queue_job_id = "j2",
                        !.error_message = IF sc[1] = "FAILED" THEN "db_error_a" ELSE "null"]]
        /\ survey_responses = [s \in Sims |-> [u \in Units |->
              IF u \in (IF s = "s1" THEN {1, 3} ELSE IF sc[1] = "COMPLETED" THEN {1, 3} ELSE {3})
              THEN 1 ELSE 0]]
        /\ questionTable = [q \in Surveys |-> 1]
        /\ personasTable = Units
        /\ queue_jobs = [j \in Jobs |->
              IF j = "j1"
              THEN [JobRow("PROCESSING", 31) EXCEPT !.retry_count = 2]
              ELSE [JobRow(sc[2], -1) EXCEPT
                        !.retry_count = sc[3],
                        !.error_message = IF sc[2] = "FAILED" THEN "db_error_a" ELSE "null",
                        !.failedAge = IF sc[2] = "FAILED" THEN 60 ELSE -1,
                        !.completedAge = IF sc[2] = "COMPLETED" THEN 11520 ELSE -1]]

QueueInit ==
    /\ isConnected = TRUE
    /\ reconnectAttempts = 0
    /\ ewr = EwrIdle
    /\ reconn = ReconnIdle
    /\ pq = PqIdle
    /\ elapsed = 0
    /\ parked = ParkedIdle
    /\ QueueInitStore
    /\ InitPassFrame

QueueNext ==
    \/ StartPass
    \/ Scan
    \/ ResumeNext
    \/ LoopEnd
    \/ FetchQuestions
    \/ ResolveCheckpoint
    \/ MarkEmpty
    \/ FetchPersonas
    \/ MarkInProgress
    \/ NextBatch
    \/ RetryBatch
    \/ BatchJoin
    \/ BatchCatch
    \/ MarkRecovered
    \/ MarkFailed
    \/ Reaper
    \/ ReaperUpdate
    \/ \E t \in tasks : TaskSave(t)
    \/ \E t \in tasks : TaskCount(t)
    \/ \E t \in tasks : TaskWrite(t)
    \/ \E op \in {"failed", "stuck"} : StartMaintPass(op)
    \/ MaintQuery
    \/ MaintResetSim
    \/ MaintResetJob
    \/ StartCleanup
    \/ CleanupDelete
    \/ PqStart
    \/ PqSelect
    \/ PqMarkProcessing
    \/ PqMarkRunning
    \/ PqMarkCompleted
    \/ PqSimCompleted
    \/ Elapse

SpecQueue == QueueInit /\ [][QueueNext]_vars

-----------------------------------------------------------------------------
(* Properties of the queue jobs and of the status of a work item           *)

\* C21: in every state reachable by the operations of the service, every queue job
\* has retry_count <= max_retries.
C21_RetryBound ==
    \A j \in Jobs : JobExists(j) => queue_jobs[j].retry_count <= queue_jobs[j].max_retries

\* C22: automatic recovery is bounded by max_retries: once the retry_count of a queue
\* job has reached max_retries, no step resets the job or its work item to PENDING.
C22_RecoveryGate ==
    [][\A j \in Jobs :
          (JobExists(j) /\ queue_jobs[j].retry_count >= queue_jobs[j].max_retries) =>
              /\ queue_jobs'[j].status = "PENDING" => queue_jobs[j].status = "PENDING"
              /\ \A s \in Sims :
                    (JobOf(s) = j /\ simulations'[s].status = "PENDING") =>
                        simulations[s].status = "PENDING"]_vars

\* C24: the update of recoverStuckQueueJobs changes exactly the queue jobs that are
\* PROCESSING with started_at older than 30 minutes: it sets them to PENDING, clears
\* started_at and adds one to retry_count (every such job its query returned), and
\* it changes no other job, whatever another writer did between the reaper's query
\* and its update.
C24_ReaperExact ==
    [][(pass.pc = "reaperUpdate" /\ pass'.pc = "done") =>
          \A j \in Jobs :
             /\ queue_jobs'[j] # queue_jobs[j] =>
                   /\ queue_jobs[j].status = "PROCESSING"
                   /\ queue_jobs[j].startedAge > stuckJobMinutes
                   /\ queue_jobs'[j] = [queue_jobs[j] EXCEPT !.status = "PENDING",
                                            !.startedAge = -1, !.retry_count = @ + 1]
             /\ (/\ queue_jobs' # queue_jobs
                 /\ j \in loc.stuckJobs
                 /\ queue_jobs[j].status = "PROCESSING"
                 /\ queue_jobs[j].startedAge > stuckJobMinutes) =>
                   queue_jobs'[j] # queue_jobs[j]]_vars

\* C30: under every interleaving of the operations of the service, every change of
\* the status of a work item is one of PENDING -> RUNNING, RUNNING -> COMPLETED,
\* RUNNING -> FAILED, FAILED -> PENDING, RUNNING -> PENDING.
C30_StatusTransitions ==
    [][\A s \in Sims :
          simulations'[s].status # simulations[s].status =>
              << simulations[s].status, simulations'[s].status >> \in
                  { << "PENDING", "RUNNING" >>, << "RUNNING", "COMPLETED" >>,
                    << "RUNNING", "FAILED" >>, << "FAILED", "PENDING" >>,
                    << "RUNNING", "PENDING" >> }]_vars

\* C26: no step of any operation changes the selected_persona_ids of a work item,
\* deletes a unit result row, a work item, a persona or a question; the only rows
\* deleted are queue jobs, by the deleteMany of cleanupOldJobs.
C26_Frame ==
    [][/\ \A s \in Sims :
             /\ simulations'[s].selected_persona_ids = simulations[s].selected_persona_ids
             /\ \A u \in Units : survey_responses'[s][u] >= survey_responses[s][u]
       /\ DOMAIN simulations' = DOMAIN simulations
       /\ personasTable' = personasTable
       /\ questionTable' = questionTable
       /\ \A j \in Jobs :
             (queue_jobs'[j].status = "DELETED" /\ queue_jobs[j].status # "DELETED") =>
                 (pass.op = "cleanup" /\ pass.pc = "delete" /\ pass'.pc = "done")]_vars

\* a result row was written, a status was reset, processQueueJobs ran and a job was deleted
C26_Witness ==
    /\ survey_responses["s1"][2] > 0
    /\ queue_jobs["j2"].status = "DELETED"
    /\ pq.calls > 0
    /\ pq.pc = "idle"
    /\ pass.pc = "done"

-----------------------------------------------------------------------------
(* Selections of the stuck recovery and of the clean-up (SpecOps)          *)

\* the work items checkAndRecoverStuckSimulations is to reset
StuckItems ==
    {s \in Sims : simulations[s].status = "RUNNING" /\ simulations[s].updatedAge > stuckMinutes}

\* C23: checkAndRecoverStuckSimulations selects exactly the work items that are RUNNING
\* with updatedAt older than 10 minutes; a step of it changes the status of the
\* selected item only, to PENDING with the explanatory error message, and it does so
\* whenever its update does not fail.
C23_StuckRecovery ==
    [][(pass.op = "stuck" /\ pass' # pass /\ pass.pc \in {"query", "resetSim", "resetJob"}) =>
          /\ (pass.pc = "query" /\ pass'.pc = "resetSim") =>
                Range(pass'.candidates) = StuckItems
          /\ (pass.pc = "query" /\ pass'.pc = "done" /\ pass'.result.total = 0) =>
                StuckItems = {}
          /\ pass.pc \in {"query", "resetJob"} =>
                \A t \in Sims : simulations'[t].status = simulations[t].status
          /\ pass.pc = "resetSim" =>
                LET s == pass.candidates[pass.idx] IN
                /\ \A t \in Sims \ {s} : simulations'[t].status = simulations[t].status
                /\ simulations'[s] # simulations[s] =>
                      /\ simulations[s].status = "RUNNING"
                      /\ simulations'[s].status = "PENDING"
                      /\ simulations'[s].error_message = "Recovered from stuck state"
                /\ pass'.failed = pass.failed => simulations'[s].status = "PENDING"]_vars

\* the item updated 11 minutes ago was reset, the one updated 9 minutes ago was not
C23_Witness ==
    /\ pass.op = "stuck"
    /\ pass.pc = "done"
    /\ pass.result.recovered = 1
    /\ pass.result.total = 1
    /\ simulations["s1"].status = "PENDING"
    /\ simulations["s1"].error_message = "Recovered from stuck state"
    /\ simulations["s2"].status = "RUNNING"
    /\ simulations["s2"].updatedAge = stuckMinutes - 1

\* the queue jobs cleanupOldJobs is to delete
Terminal7Days ==
    {j \in Jobs :
        \/ queue_jobs[j].status = "COMPLETED" /\ queue_jobs[j].completedAge > cleanupMinutes
        \/ queue_jobs[j].status = "FAILED" /\ queue_jobs[j].failedAge > cleanupMinutes}

\* C25: the deleteMany of cleanupOldJobs deletes only queue jobs that are COMPLETED
\* with completed_at older than 7 days or FAILED with failed_at older than 7 days, it
\* deletes all of them when the storage call does not fail, and it changes nothing else.
C25_Cleanup ==
    [][(pass.op = "cleanup" /\ pass.pc = "delete" /\ pass'.pc = "done") =>
          /\ \A j \in Jobs :
                /\ queue_jobs'[j] # queue_jobs[j] =>
                      /\ j \in Terminal7Days
                      /\ queue_jobs'[j] = [queue_jobs[j] EXCEPT !.status = "DELETED"]
                /\ (failures' = failures /\ j \in Terminal7Days) =>
                      queue_jobs'[j].status = "DELETED"
          /\ simulations' = simulations
          /\ survey_responses' = survey_responses]_vars

\* the job completed 8 days ago was deleted, the one completed 6 days ago was kept
C25_Witness ==
    /\ pass.op = "cleanup"
    /\ pass.pc = "done"
    /\ queue_jobs["j1"].status = "DELETED"
    /\ queue_jobs["j1"].completedAge = cleanupMinutes + 1440
    /\ queue_jobs["j2"].status = "COMPLETED"
    /\ queue_jobs["j2"].completedAge = cleanupMinutes - 1440

-----------------------------------------------------------------------------
(* The tallies of a RecoveryResult                                         *)

\* C31: every RecoveryResult returned by the incomplete, failed and stuck passes has
\* recovered >= 0, failed >= 0 and recovered + failed = total, on the normal path, on
\* the path without candidates and on the path of the outer catch; on the normal path
\* the total is the number of candidates the query returned.
C31_TallyAddsUp ==
    (pass.pc = "done" /\ pass.op \in {"incomplete", "failed", "stuck"}) =>
        /\ pass.result.recovered >= 0
        /\ pass.result.failed >= 0
        /\ pass.result.recovered + pass.result.failed = pass.result.total
        /\ \/ pass.result.total = Len(pass.candidates)
           \/ /\ pass.result.status = "UNHEALTHY"
              /\ pass.result.recovered = 0
              /\ pass.result.failed = 1

\* a failed-recovery pass over two candidates, one reset and one not
C31_Witness ==
    /\ pass.pc = "done"
    /\ pass.op = "failed"
    /\ Len(pass.candidates) = 2
    /\ pass.result.recovered = 1
    /\ pass.result.failed = 1
    /\ pass.result.total = 2

-----------------------------------------------------------------------------
(* The reconnect attempt counter                                           *)

\* C32: the reconnect attempt counter stays within 0..maxReconnectAttempts, also when
\* calls of reconnect() overlap; every successful connection attempt resets it to 0;
\* and whenever the session is marked connected the counter is below the maximum.
C32_AttemptCounter ==
    /\ [](reconnectAttempts \in 0..maxReconnectAttempts)
    /\ [](isConnected => reconnectAttempts < maxReconnectAttempts)
    /\ [][\A c \in Callers :
             (reconn.fr[c].pc = "connect" /\ reconn'.fr[c].pc = "idle"
                 /\ reconn'.fr[c].ret = "true") => reconnectAttempts' = 0]_vars

-----------------------------------------------------------------------------
(* Termination of executeWithRetry (SpecRetryFair)                         *)

\* C33: for maxRetries >= 1 a call of executeWithRetry never invokes the wrapped
\* operation more than maxRetries times, and it ends: it returns the operation's
\* value or raises an error.
C33_Terminates ==
    /\ [](ewr.calls <= ewr.maxRetries)
    /\ [](ewr.pc = "returned" => ewr.result = "value")
    /\ <>(ewr.pc \in {"returned", "raised"})

\* a call with maxRetries = 3 that lost the connection, reconnected, and raised after
\* three invocations of the operation
C33_Witness ==
    /\ ewr.pc = "raised"
    /\ ewr.maxRetries = 3
    /\ ewr.calls = 3
    /\ ewr.connEvents >= 1
    /\ ewr.result \in TransientErrors

-----------------------------------------------------------------------------
(* The units of a failed resumption (Spec)                                 *)

\* C35: once resumeIncompleteSimulation has marked a work item FAILED because a unit
\* of a batch failed, the unit closures of the failed batch attempts write nothing
\* more for that item during the pass: no result row is added and the counters of
\* its row stay as they are.
C35_FailedIsQuiet ==
    [][\A s \in Sims :
          (/\ hist[s].outcome = "failed"
           /\ hist[s].marked = "ok"
           /\ hist[s].failedAt > 0
           /\ pass'.no = pass.no)
          => /\ survey_responses'[s] = survey_responses[s]
             /\ simulations'[s].successful_requests = simulations[s].successful_requests
             /\ simulations'[s].progress_percentage = simulations[s].progress_percentage
             /\ simulations'[s].updatedAge = simulations[s].updatedAge]_vars

-----------------------------------------------------------------------------
(* Two invocations of cron tasks in flight at once (SpecOverlap).  The     *)
(* start-up pass of main.ts runs after the cron tasks were started, and    *)
(* a cron task fires whether or not an earlier callback has returned.      *)
(* pass, loc, tasks, batchErr and hist are the frame of the invocation     *)
(* that runs; parked is the frame of the other one.                        *)

\* at an await of the running invocation the event loop resumes the other invocation
Switch ==
    /\ pass.pc # "idle"
    /\ parked.switches < MaxSwitches
    /\ parked' = Frame(pass, loc, tasks, batchErr, hist, parked.switches + 1)
    /\ pass' = parked.pass
    /\ loc' = parked.loc
    /\ tasks' = parked.tasks
    /\ batchErr' = parked.batchErr
    /\ hist' = parked.hist
    /\ UNCHANGED << isConnected, reconnectAttempts, ewr, reconn, pq, elapsed, storeVars, failures >>

\* initial stores of SpecOverlap, work items created and last updated 20 minutes ago:
\* << recorded units of s1, status of s2, storage failures injected in the behaviour >>
OverlapScenarios ==
    { << {}, "PENDING", 0 >>,
      << {1, 3}, "RUNNING", 1 >> }

OverlapInitStore(sc) ==
    /\ simulations = [s \in Sims |->
          IF s = "s1"
          THEN [SimRow(<< 1, 2, 3 >>, "RUNNING", 20) EXCEPT !.queue_job_id = "j1"]
          ELSE SimRow(<< 3, 1 >>, sc[2], 20)]
    /\ survey_responses = [s \in Sims |-> [u \in Units |->
          IF u \in (IF s = "s1" THEN sc[1] ELSE {3}) THEN 1 ELSE 0]]
    /\ questionTable = [q \in Surveys |-> 1]
    /\ personasTable = Units
    /\ queue_jobs = [j \in Jobs |->
          IF j = "j1" THEN JobRow("PROCESSING", 31) ELSE JobRow("PROCESSING", 29)]

\* each of the two frames runs one invocation
OverlapInit ==
    /\ isConnected = TRUE
    /\ reconnectAttempts = 0
    /\ ewr = EwrIdle
    /\ reconn = ReconnIdle
    /\ pq = PqIdle
    /\ elapsed = 0
    /\ \E sc \in OverlapScenarios :
         /\ OverlapInitStore(sc)
         /\ failures = MaxFailures - sc[3]
    /\ pass = [PassIdle EXCEPT !.no = MaxPasses - 1]
    /\ loc = LocIdle
    /\ tasks = {}
    /\ batchErr = "none"
    /\ hist = HistIdle
    /\ parked = [ParkedIdle EXCEPT !.pass.no = MaxPasses - 1]

OverlapNext ==
    \/ StartPass
    \/ Scan
    \/ ResumeNext
    \/ LoopEnd
    \/ FetchQuestions
    \/ ResolveCheckpoint
    \/ MarkEmpty
    \/ FetchPersonas
    \/ MarkInProgress
    \/ NextBatch
    \/ RetryBatch
    \/ BatchJoin
    \/ BatchCatch
    \/ MarkRecovered
    \/ MarkFailed
    \/ Reaper
    \/ ReaperUpdate
    \/ \E t \in tasks : TaskSave(t)
    \/ \E t \in tasks : TaskCount(t)
    \/ \E t \in tasks : TaskWrite(t)
    \/ StartMaintPass("stuck")
    \/ MaintQuery
    \/ MaintResetSim
    \/ MaintResetJob
    \/ Switch

SpecOverlap == OverlapInit /\ [][OverlapNext]_vars

-----------------------------------------------------------------------------
(* Properties of overlapping invocations (SpecOverlap)                     *)

\* C34: when two invocations of checkAndRecoverIncompleteSimulations overlap, no unit
\* of a work item has its results generated and persisted by both of them.
C34_NoUnitTwice ==
    (pass.op = "incomplete" /\ parked.pass.op = "incomplete") =>
        \A s \in Sims : \A u \in Units :
            ~(hist[s].saved[u] > 0 /\ parked.hist[s].saved[u] > 0)

\* C36: a work item that an incomplete pass in flight is resuming (recovery_status
\* IN_PROGRESS, its batches running) is never reset to PENDING by an invocation of
\* checkAndRecoverStuckSimulations that runs at the same time.
C36_ResumingNotReset ==
    [][\A s \in Sims :
          (/\ pass.op = "stuck"
           /\ pass'.op = "stuck"
           /\ parked.pass.op = "incomplete"
           /\ parked.loc.sim = s
           /\ parked.pass.pc \in {"batchWait", "batchNext", "batchBackoff"}
           /\ simulations[s].status = "RUNNING"
           /\ simulations[s].recovery_status = "IN_PROGRESS")
          => simulations'[s].status # "PENDING"]_vars

-----------------------------------------------------------------------------
(* Repeated recovery passes with healthy storage (SpecLive): no storage    *)
(* call fails and every generation succeeds; the recovery task keeps       *)
(* firing, and every awaited promise settles.                              *)

\* the recovery task fires again after the passes that MaxPasses counts: a pass like
\* the others, which keeps the number of the last one
CronFire ==
    /\ pass.pc = "done"
    /\ pass.no = MaxPasses
    /\ tasks = {}
    /\ pass' = IF getClientThrows(isConnected)
               THEN [PassIdle EXCEPT !.no = pass.no, !.pc = "done",
                                     !.result = FatalResult(ErrNotConnected)]
               ELSE [PassIdle EXCEPT !.no = pass.no, !.pc = "scan"]
    /\ loc' = LocIdle
    /\ hist' = HistIdle
    /\ UNCHANGED << isConnected, reconnectAttempts, ewr, reconn, pq, elapsed, parked, storeVars, tasks, batchErr, failures >>

LiveInit ==
    /\ isConnected = TRUE
    /\ reconnectAttempts = 0
    /\ ewr = EwrIdle
    /\ reconn = ReconnIdle
    /\ pq = PqIdle
    /\ elapsed = 0
    /\ parked = ParkedIdle
    /\ InitStore
    /\ pass = PassIdle
    /\ loc = LocIdle
    /\ tasks = {}
    /\ batchErr = "none"
    /\ hist = HistIdle
    /\ failures = MaxFailures

\* the steps of a pass none of whose calls fails
LiveNext ==
    \/ StartPass
    \/ CronFire
    \/ Scan
    \/ ResumeNext
    \/ LoopEnd
    \/ FetchQuestions
    \/ ResolveCheckpoint
    \/ MarkEmpty
    \/ FetchPersonas
    \/ MarkInProgress
    \/ NextBatch
    \/ BatchJoin
    \/ MarkRecovered
    \/ Reaper
    \/ ReaperUpdate
    \/ \E t \in tasks : TaskSave(t)
    \/ \E t \in tasks : TaskCount(t)
    \/ \E t \in tasks : TaskWrite(t)

SpecLive == LiveInit /\ [][LiveNext]_vars /\ WF_vars(LiveNext)

\* C37: with storage healthy and every generation call succeeding, repeated passes
\* eventually bring every RUNNING work item created more than 5 minutes ago to
\* COMPLETED with a result row for every declared unit, for good; and a pass never
\* selects a work item that is COMPLETED.
C37_EventuallyCompleted ==
    /\ \A s \in Sims :
          (simulations[s].status = "RUNNING" /\ simulations[s].createdAge > staleMinutes)
          ~> [](/\ simulations[s].status = "COMPLETED"
                /\ \A u \in Declared(s) : survey_responses[s][u] > 0)
    /\ [][\A s \in Sims :
            (simulations[s].status = "COMPLETED" /\ pass.pc = "scan")
            => s \notin Range(pass'.candidates)]_vars

====
